---- MODULE Spec2Model ----
(***************************************************************************)
(* A MeshNode (src/meshnet/discovery/mesh_node.py) on top of the base Node *)
(* (src/meshnet/core/node.py): the peer table, the hole-punch attempts and *)
(* their retry timers, driven by the receive thread, the maintenance       *)
(* thread, the timer threads and the public API.                           *)
(*                                                                         *)
(* Granularity.  The code takes no lock.  Handlers are modelled as atomic  *)
(* segments, cut at one place: inside _initiate_hole_punch, between its    *)
(* guards (lines 285-290) and the creation of the attempt record (line    *)
(* 295).  Both callers of _initiate_hole_punch (the receive thread in      *)
(* _handle_discover_response, the maintenance thread in                    *)
(* _check_peer_connections) can be suspended there.  Every behaviour of    *)
(* the model is an interleaving the threads of the program can produce.    *)
(*                                                                         *)
(* Time.  now is time.time() in seconds; it advances in steps of TickStep. *)
(* Timer delays and the maintenance sleep are not tied to now: a pending   *)
(* timer may fire, and a sleeping maintenance thread may wake, at any      *)
(* moment.  A send is recorded when _send_to_addr is called, whether or    *)
(* not sendto() succeeds.  The node's own external address (STUN,          *)
(* register_ok) is read by no modelled operation and is left out.          *)
(***************************************************************************)
EXTENDS Integers, Sequences, FiniteSets, TLC

VARIABLES
    peers,          \* self.peers: node_id -> [external, local, status, last_seen]
    hole_punching,  \* self.hole_punching: node_id -> [attempts, max_attempts]
    timers,         \* pending threading.Timer objects per peer (a count)
    running,        \* self.running
    registered,     \* self.registered
    last_discover,  \* self.last_discover
    now,            \* time.time()
    recv,           \* position of the receive thread
    maint,          \* position of the maintenance thread
    events,         \* datagrams received, API calls made, clock steps taken
    sent,           \* datagrams handed to sendto() by the last step
    last,           \* the operation the last step performed, as the log shows it
    server_nodes,   \* DiscoveryServer.nodes, in the dict's insertion order
    server_running, \* DiscoveryServer.running
    disc,           \* position of the server's receive thread inside _handle_discover
    sweep,          \* position of the server's cleanup thread
    reg_from,       \* source address of the last register the server processed, per node
    net,            \* datagrams in flight between the node and the discovery server
    routing_table,  \* VpnNode.routing_table: overlay IP -> node_id
    ip_mapping,     \* VpnNode.ip_mapping: node_id -> overlay IP
    tun,            \* VpnNode.tun: "none", an adapter that is "closed", or one that is "open"
    tun_written,    \* packets handed to tun.write() by the last step
    started,        \* threading.Timer objects started by the last step: peer and delay (ms)
    dht_node_id,    \* DHTNode.node_id of each DHT node
    dht_running,    \* DHTNode.running of each DHT node
    buckets,        \* DHTNode.buckets of each DHT node: bucket index -> contacts, oldest first
    storage,        \* DHTNode.storage of each DHT node: key hash -> value
    buckets_lock,   \* the thread that holds DHTNode.buckets_lock of each DHT node
    rx,             \* position of each DHT node's receive thread
    refresher,      \* position of each DHT node's maintenance thread
    caller          \* the API call in progress on each DHT node, and what it returned

nodeVars == <<peers, hole_punching, timers, running, registered, last_discover,
              now, recv, maint, events, sent, last, started>>
serverVars == <<server_nodes, server_running, disc, sweep, reg_from>>
vpnVars == <<routing_table, ip_mapping, tun, tun_written>>

dhtVars == <<dht_node_id, dht_running, buckets, storage, buckets_lock, rx,
             refresher, caller>>

vars == <<nodeVars, serverVars, net, vpnVars, dhtVars>>

----------------------------------------------------------------------------
(* Bounds of the model *)

\* seconds by which one Tick advances the clock
TickStep == 150
\* datagrams received, API calls made and clock steps taken in one run
MaxEvents == 3
\* pending timers per peer
MaxTimers == 2
\* entries of the 'nodes' list of a discover_response
MaxNodes == 1
\* clock steps of the discovery server
MaxTicks == 3
\* clock steps of the VPN node
MaxVpnTicks == 1

----------------------------------------------------------------------------
(* Program constants *)

\* 'max_attempts': 5
MaxAttempts == 5
\* delay of the first retry timer, in milliseconds (1.0 s)
InitialDelay == 1000
\* base of the exponential backoff, in milliseconds (0.5 s)
BackoffBase == 500
\* cap of the exponential backoff, in milliseconds (5 s)
BackoffCap == 5000
\* cleanup_peers(max_age = 300)
DefaultMaxAge == 300
\* time.time() - 600 in _handle_discover_response
DiscoverBacklog == 600
\* now - last_seen > 60: re-initiate
ReconnectAge == 60
\* now - last_seen > 30: ping
PingAge == 30
\* self.reconnect_interval = 60
ReconnectInterval == 60

----------------------------------------------------------------------------
(* Identifiers, addresses, messages *)

SelfId == "n0"
PeerIds == {"p1", "p2"}
NodeIds == PeerIds \cup {SelfId}
\* a message or a 'nodes' entry without the field 'node_id'
NoId == "-"

Loopback == "127.0.0.1"
LoAddr == <<Loopback, 7001>>
WanAddr == <<"198.51.100.7", 7002>>
Addrs == {LoAddr, WanAddr}
\* a peer record without the keys 'local_ip' / 'local_port'
NoAddr == <<>>
LocalAddrs == {NoAddr, WanAddr}
ServerAddr == <<"203.0.113.1", 8000>>

\* self.handlers of MeshNode
MeshActions == {"register_ok", "discover_response", "hole_punch",
                "hole_punch_ack", "pong"}
\* a message without the field 'action'
NoAction == "-"
Actions == MeshActions \cup {"ping", "bogus", NoAction}

NodeEntries == [node_id : NodeIds \cup {NoId}, external : Addrs, local : LocalAddrs]

RECURSIVE SeqsUpTo(_, _)
SeqsUpTo(S, n) ==
    IF n = 0 THEN {<<>>}
    ELSE LET shorter == SeqsUpTo(S, n - 1)
         IN shorter \cup {Append(s, e) : s \in {x \in shorter : Len(x) = n - 1}, e \in S}

NodeLists == SeqsUpTo(NodeEntries, MaxNodes)

\* the datagrams the receive loop can be handed: any action with any sender,
\* and the discovery server's discover_response, which carries 'nodes' and no
\* 'node_id' (discovery_server.py, lines 171-185)
Messages ==
    [action : Actions, node_id : NodeIds \cup {NoId},
     has_nodes : {FALSE}, nodes : {<<>>}]
    \cup
    [action : {"discover_response"}, node_id : {NoId},
     has_nodes : {TRUE}, nodes : NodeLists]

\* the max_age arguments cleanup_peers is called with
MaxAges == {0, ReconnectAge, DefaultMaxAge}

Statuses == {"discovered", "active", "manual"}

Idle == [pc |-> "idle", peer |-> NoId, rest |-> <<>>]
Sleeping == [pc |-> "sleep", peer |-> NoId]

\* the server's receive thread outside _handle_discover
NoRequest == [pc |-> "idle"]
\* the server's cleanup thread in time.sleep(60)
SweepSleeping == [pc |-> "sleep", inactive |-> <<>>]

----------------------------------------------------------------------------
(* The node's mutable state as one value, so that the code's calls compose *)

Cur ==
    [peers |-> peers, hp |-> hole_punching, timers |-> timers, sent |-> <<>>,
     registered |-> registered, last_discover |-> last_discover,
     recv |-> recv, maint |-> maint, started |-> <<>>]

Put(f, k, v) == [x \in DOMAIN f \cup {k} |-> IF x = k THEN v ELSE f[x]]
Drop(f, k) == [x \in DOMAIN f \ {k} |-> f[x]]

----------------------------------------------------------------------------
(* Node: src/meshnet/core/node.py *)

\* Node._send_to_addr
SendToAddr(st, action, addr) ==
    [st EXCEPT !.sent = Append(@, [action |-> action, to |-> addr])]

\* Node.send_to_peer
SendToPeer(st, peer_id, action) ==
    IF peer_id \notin DOMAIN st.peers THEN st
    ELSE SendToAddr(st, action, st.peers[peer_id].external)

\* Node.ping_peer
PingPeer(st, peer_id) == SendToPeer(st, peer_id, "ping")

\* Node._handle_ping
HandlePing(st, addr) == SendToAddr(st, "pong", addr)

\* Node._handle_message: the actions MeshNode.handlers does not hold.  The
\* handler is looked up by name: _handle_ping exists; "bogus" has none.
NodeHandleMessage(st, message, addr) ==
    IF message.action = NoAction \/ message.node_id = NoId THEN st
    ELSE LET peer_id == message.node_id
             st1 == IF peer_id \in DOMAIN st.peers
                    THEN [st EXCEPT !.peers[peer_id].last_seen = now]
                    ELSE st
         IN IF message.action = "ping" THEN HandlePing(st1, addr) ELSE st1

\* Node.add_peer
AddPeerTo(ps, peer_id, addr) ==
    IF peer_id = SelfId THEN ps
    ELSE IF peer_id \notin DOMAIN ps
    THEN Put(ps, peer_id, [external |-> addr, local |-> NoAddr,
                           status |-> "manual", last_seen |-> now])
    ELSE [ps EXCEPT ![peer_id].external = addr, ![peer_id].last_seen = now]

\* cleanup_peers with >= for >: an entry of age max_age goes too
CleanupPeersInclusive(ps, max_age) ==
    LET inactive == {p \in DOMAIN ps : now - ps[p].last_seen >= max_age}
    IN [p \in DOMAIN ps \ inactive |-> ps[p]]

\* Node.cleanup_peers
CleanupPeers(ps, max_age) ==
    LET inactive == {p \in DOMAIN ps : now - ps[p].last_seen > max_age}
    IN [p \in DOMAIN ps \ inactive |-> ps[p]]

----------------------------------------------------------------------------
(* MeshNode: src/meshnet/discovery/mesh_node.py *)

\* threading.Timer(delay, self._hole_punch_retry, args=[peer_id]).start()
StartTimer(st, peer_id, delay) ==
    [st EXCEPT !.timers[peer_id] = @ + 1,
               !.started = Append(@, [peer |-> peer_id, delay |-> delay])]

\* min(5, 0.5 * 2 ** info['attempts']), in milliseconds
Backoff(attempts) ==
    IF BackoffBase * 2 ^ attempts < BackoffCap THEN BackoffBase * 2 ^ attempts
    ELSE BackoffCap

\* _initiate_hole_punch, lines 285-290: the two early returns
InitiateGuard(st, peer_id) ==
    /\ peer_id \in DOMAIN st.peers
    /\ peer_id \notin DOMAIN st.hp

\* _initiate_hole_punch, lines 295-320.  TRUE in .ok when it returns; when the
\* peer left the table after the guards, self.peers[peer_id] raises KeyError
\* after the record was written: nothing is sent and no timer is started.
InitiateAct(st, peer_id) ==
    LET st1 == [st EXCEPT !.hp = Put(@, peer_id,
                    [attempts |-> 0, max_attempts |-> MaxAttempts])]
    IN IF peer_id \notin DOMAIN st1.peers THEN [st |-> st1, ok |-> FALSE]
       ELSE LET peer == st1.peers[peer_id]
                st2 == SendToAddr(st1, "hole_punch", peer.external)
                st3 == IF peer.local # NoAddr /\ peer.local # peer.external
                       THEN SendToAddr(st2, "hole_punch", peer.local)
                       ELSE st2
            IN [st |-> StartTimer(st3, peer_id, InitialDelay), ok |-> TRUE]

\* _discover_peers (a discovery server is configured)
DiscoverPeers(st) ==
    IF ~st.registered THEN st
    ELSE SendToAddr([st EXCEPT !.last_discover = now], "discover", ServerAddr)

\* _register_with_discovery
RegisterWithDiscovery(st) == SendToAddr(st, "register", ServerAddr)

\* _handle_register_ok
HandleRegisterOk(st) == DiscoverPeers([st EXCEPT !.registered = TRUE])

\* _handle_discover_response, the loop over 'nodes' from one entry on; it stops
\* where _initiate_hole_punch has passed its guards.
RECURSIVE DiscoverLoop(_, _)
DiscoverLoop(st, nodes) ==
    IF nodes = <<>> THEN [st EXCEPT !.recv = Idle]
    ELSE LET node == Head(nodes)
             peer_id == node.node_id
         IN IF peer_id = NoId \/ peer_id = SelfId \/ peer_id \in DOMAIN st.peers
            THEN DiscoverLoop(st, Tail(nodes))
            ELSE LET st1 == [st EXCEPT !.peers = Put(@, peer_id,
                                [external |-> node.external, local |-> node.local,
                                 status |-> "discovered",
                                 last_seen |-> now - DiscoverBacklog])]
                 IN IF InitiateGuard(st1, peer_id)
                    THEN [st1 EXCEPT !.recv = [pc |-> "punch", peer |-> peer_id,
                                               rest |-> Tail(nodes)]]
                    ELSE DiscoverLoop(st1, Tail(nodes))

\* _handle_discover_response
HandleDiscoverResponse(st, message) ==
    IF ~message.has_nodes THEN st ELSE DiscoverLoop(st, message.nodes)

\* _handle_hole_punch that keeps the endpoint of a peer it already knows
HandleHolePunchKeepsEndpoint(st, message, addr) ==
    IF message.node_id = NoId THEN st
    ELSE LET peer_id == message.node_id
             st1 == IF peer_id \in DOMAIN st.peers
                    THEN [st EXCEPT !.peers[peer_id].status = "active",
                                    !.peers[peer_id].last_seen = now]
                    ELSE [st EXCEPT !.peers = Put(@, peer_id,
                             [external |-> addr, local |-> NoAddr,
                              status |-> "active", last_seen |-> now])]
         IN SendToAddr(st1, "hole_punch_ack", addr)

\* _handle_hole_punch
HandleHolePunch(st, message, addr) ==
    IF message.node_id = NoId THEN st
    ELSE LET peer_id == message.node_id
             st1 == IF peer_id \in DOMAIN st.peers
                    THEN [st EXCEPT !.peers[peer_id].external = addr,
                                    !.peers[peer_id].status = "active",
                                    !.peers[peer_id].last_seen = now]
                    ELSE [st EXCEPT !.peers = Put(@, peer_id,
                             [external |-> addr, local |-> NoAddr,
                              status |-> "active", last_seen |-> now])]
         IN SendToAddr(st1, "hole_punch_ack", addr)

\* _handle_hole_punch_ack
HandleHolePunchAck(st, message, addr) ==
    IF message.node_id = NoId THEN st
    ELSE LET peer_id == message.node_id
             st1 == IF peer_id \in DOMAIN st.peers
                    THEN [st EXCEPT !.peers[peer_id].external = addr,
                                    !.peers[peer_id].status = "active",
                                    !.peers[peer_id].last_seen = now]
                    ELSE st
         IN IF peer_id \in DOMAIN st1.hp
            THEN [st1 EXCEPT !.hp = Drop(@, peer_id)]
            ELSE st1

\* _handle_pong
HandlePong(st, message) ==
    IF message.node_id = NoId THEN st
    ELSE LET peer_id == message.node_id
         IN IF peer_id \in DOMAIN st.peers
            THEN [st EXCEPT !.peers[peer_id].last_seen = now,
                            !.peers[peer_id].status = "active"]
            ELSE st

\* lines 74-91 of MeshNode._handle_message writing a fresh entry for a sender
\* it already knows
TouchSenderResetsStatus(st, message, addr) ==
    IF message.node_id = NoId THEN st
    ELSE LET peer_id == message.node_id
         IN IF peer_id # SelfId /\ addr[1] # Loopback
            THEN [st EXCEPT !.peers = Put(@, peer_id,
                     [external |-> addr, local |-> NoAddr,
                      status |-> "discovered", last_seen |-> now])]
            ELSE st

\* MeshNode._handle_message, lines 74-91: the sender's entry
TouchSender(st, message, addr) ==
    IF message.node_id = NoId THEN st
    ELSE LET peer_id == message.node_id
         IN IF peer_id # SelfId /\ addr[1] # Loopback
            THEN IF peer_id \notin DOMAIN st.peers
                 THEN [st EXCEPT !.peers = Put(@, peer_id,
                          [external |-> addr, local |-> NoAddr,
                           status |-> "discovered", last_seen |-> now])]
                 ELSE [st EXCEPT !.peers[peer_id].external = addr,
                                 !.peers[peer_id].last_seen = now]
            ELSE st

\* MeshNode._handle_message
MeshHandleMessage(st, message, addr) ==
    IF message.action = NoAction THEN st
    ELSE LET st1 == TouchSender(st, message, addr)
             action == message.action
         IN CASE action = "register_ok" -> HandleRegisterOk(st1)
              [] action = "discover_response" -> HandleDiscoverResponse(st1, message)
              [] action = "hole_punch" -> HandleHolePunch(st1, message, addr)
              [] action = "hole_punch_ack" -> HandleHolePunchAck(st1, message, addr)
              [] action = "pong" -> HandlePong(st1, message)
              [] OTHER -> NodeHandleMessage(st1, message, addr)

\* _hole_punch_retry that forgets the peer when the attempt is exhausted
HolePunchRetryDropsPeer(st, peer_id) ==
    LET st0 == [st EXCEPT !.timers[peer_id] = @ - 1]
    IN IF ~running \/ peer_id \notin DOMAIN st0.hp THEN st0
       ELSE LET attempts == st0.hp[peer_id].attempts + 1
                st1 == [st0 EXCEPT !.hp[peer_id].attempts = attempts]
            IN IF attempts >= st1.hp[peer_id].max_attempts
               THEN [st1 EXCEPT !.hp = Drop(@, peer_id), !.peers = Drop(@, peer_id)]
               ELSE IF peer_id \in DOMAIN st1.peers
               THEN LET peer == st1.peers[peer_id]
                        st2 == IF attempts % 2 = 0
                               THEN SendToAddr(st1, "hole_punch", peer.external)
                               ELSE IF peer.local # NoAddr
                               THEN SendToAddr(st1, "hole_punch", peer.local)
                               ELSE st1
                    IN StartTimer(st2, peer_id, Backoff(attempts))
               ELSE [st1 EXCEPT !.hp = Drop(@, peer_id)]

\* _hole_punch_retry without the test of self.running
HolePunchRetryIgnoresStop(st, peer_id) ==
    LET st0 == [st EXCEPT !.timers[peer_id] = @ - 1]
    IN IF peer_id \notin DOMAIN st0.hp THEN st0
       ELSE LET attempts == st0.hp[peer_id].attempts + 1
                st1 == [st0 EXCEPT !.hp[peer_id].attempts = attempts]
            IN IF attempts >= st1.hp[peer_id].max_attempts
               THEN [st1 EXCEPT !.hp = Drop(@, peer_id)]
               ELSE IF peer_id \in DOMAIN st1.peers
               THEN LET peer == st1.peers[peer_id]
                        st2 == IF attempts % 2 = 0
                               THEN SendToAddr(st1, "hole_punch", peer.external)
                               ELSE IF peer.local # NoAddr
                               THEN SendToAddr(st1, "hole_punch", peer.local)
                               ELSE st1
                    IN StartTimer(st2, peer_id, Backoff(attempts))
               ELSE [st1 EXCEPT !.hp = Drop(@, peer_id)]

\* _hole_punch_retry, run by one timer thread; the timer that fired is gone
HolePunchRetry(st, peer_id) ==
    LET st0 == [st EXCEPT !.timers[peer_id] = @ - 1]
    IN IF ~running \/ peer_id \notin DOMAIN st0.hp THEN st0
       ELSE LET attempts == st0.hp[peer_id].attempts + 1
                st1 == [st0 EXCEPT !.hp[peer_id].attempts = attempts]
            IN IF attempts >= st1.hp[peer_id].max_attempts
               THEN [st1 EXCEPT !.hp = Drop(@, peer_id)]
               ELSE IF peer_id \in DOMAIN st1.peers
               THEN LET peer == st1.peers[peer_id]
                        st2 == IF attempts % 2 = 0
                               THEN SendToAddr(st1, "hole_punch", peer.external)
                               ELSE IF peer.local # NoAddr
                               THEN SendToAddr(st1, "hole_punch", peer.local)
                               ELSE st1
                    IN StartTimer(st2, peer_id, Backoff(attempts))
               ELSE [st1 EXCEPT !.hp = Drop(@, peer_id)]

\* which way through _hole_punch_retry a firing timer takes
RetryOutcome(st, peer_id) ==
    IF ~running \/ peer_id \notin DOMAIN st.hp THEN "retry_noop"
    ELSE IF st.hp[peer_id].attempts + 1 >= st.hp[peer_id].max_attempts
    THEN "retry_exhausted"
    ELSE IF peer_id \in DOMAIN st.peers THEN "retry_sent"
    ELSE "retry_vanished"

\* the order in which _check_peer_connections visits the table
PeerOrder == <<"n0", "p1", "p2">>

\* _check_peer_connections from the i-th peer on, then cleanup_peers() and the
\* sleep; it stops where _initiate_hole_punch has passed its guards.
RECURSIVE CheckLoop(_, _)
CheckLoop(st, i) ==
    IF i > Len(PeerOrder)
    THEN [st EXCEPT !.peers = CleanupPeers(@, DefaultMaxAge), !.maint = Sleeping]
    ELSE LET peer_id == PeerOrder[i]
         IN IF peer_id \notin DOMAIN st.peers \/ peer_id \in DOMAIN st.hp
            THEN CheckLoop(st, i + 1)
            ELSE LET info == st.peers[peer_id]
                 IN IF info.status # "active" /\ now - info.last_seen > ReconnectAge
                    THEN IF InitiateGuard(st, peer_id)
                         THEN [st EXCEPT !.maint = [pc |-> "punch", peer |-> peer_id]]
                         ELSE CheckLoop(st, i + 1)
                    ELSE IF info.status = "active" /\ now - info.last_seen > PingAge
                    THEN CheckLoop(PingPeer(st, peer_id), i + 1)
                    ELSE CheckLoop(st, i + 1)

IndexOf(peer_id) == CHOOSE i \in 1..Len(PeerOrder) : PeerOrder[i] = peer_id

\* a pass of _maintenance_loop that registers whatever self.registered is
MaintenancePassRegistersAgain(st) ==
    LET st1 == RegisterWithDiscovery(st)
        st2 == IF st1.registered /\ now - st1.last_discover > ReconnectInterval
               THEN DiscoverPeers(st1) ELSE st1
    IN CheckLoop(st2, 1)

\* one pass of _maintenance_loop, up to the first suspension
MaintenancePass(st) ==
    LET st1 == IF ~st.registered THEN RegisterWithDiscovery(st) ELSE st
        st2 == IF st1.registered /\ now - st1.last_discover > ReconnectInterval
               THEN DiscoverPeers(st1) ELSE st1
    IN CheckLoop(st2, 1)

----------------------------------------------------------------------------
(* Actions *)

\* one more datagram, API call or clock step
Event ==
    /\ events < MaxEvents
    /\ events' = events + 1

TimersOk(st) == \A p \in NodeIds : st.timers[p] <= MaxTimers

\* the node's fields take the values of st
Assign(st, l) ==
    /\ TimersOk(st)
    /\ peers' = st.peers
    /\ hole_punching' = st.hp
    /\ timers' = st.timers
    /\ registered' = st.registered
    /\ last_discover' = st.last_discover
    /\ recv' = st.recv
    /\ maint' = st.maint
    /\ sent' = st.sent
    /\ started' = st.started
    /\ last' = l

\* a step of the mesh node alone
Commit(st, l) ==
    /\ Assign(st, l)
    /\ UNCHANGED <<serverVars, net, vpnVars, dhtVars>>

NodeInit ==
    /\ peers = <<>>
    /\ hole_punching = <<>>
    /\ timers = [p \in NodeIds |-> 0]
    /\ running = TRUE
    /\ registered = FALSE
    /\ last_discover = 0
    /\ now = 0
    /\ recv = Idle
    /\ maint = Sleeping
    /\ events = 0
    /\ sent = <<>>
    /\ started = <<>>
    /\ last = "init"
    /\ server_nodes = <<>>
    /\ server_running = FALSE
    /\ disc = NoRequest
    /\ sweep = SweepSleeping
    /\ reg_from = <<>>
    /\ net = {}
    /\ routing_table = <<>>
    /\ ip_mapping = <<>>
    /\ tun = "none"
    /\ tun_written = <<>>

\* no DHTNode is constructed beside the mesh node
NoDht ==
    /\ dht_node_id = <<>>
    /\ dht_running = <<>>
    /\ buckets = <<>>
    /\ storage = <<>>
    /\ buckets_lock = <<>>
    /\ rx = <<>>
    /\ refresher = <<>>
    /\ caller = <<>>

Init == NodeInit /\ NoDht

\* _receive_loop: one datagram through _handle_message
Receive(message, addr) ==
    /\ running
    /\ recv.pc = "idle"
    /\ Event
    /\ Commit(MeshHandleMessage(Cur, message, addr), "receive")
    /\ UNCHANGED <<running, now>>

\* the receive thread resumes inside _initiate_hole_punch; a KeyError ends
\* the handler (caught in _handle_message)
ReceivePunch ==
    /\ recv.pc = "punch"
    /\ LET r == InitiateAct(Cur, recv.peer)
       IN Commit(IF r.ok THEN DiscoverLoop(r.st, recv.rest)
                 ELSE [r.st EXCEPT !.recv = Idle],
                 "initiate")
    /\ UNCHANGED <<running, now, events>>

\* the maintenance thread wakes and runs one pass
Maintain ==
    /\ running
    /\ maint.pc = "sleep"
    /\ Commit(MaintenancePass(Cur), "maintain")
    /\ UNCHANGED <<running, now, events>>

\* the maintenance thread resumes inside _initiate_hole_punch
MaintainPunch ==
    /\ maint.pc = "punch"
    /\ LET r == InitiateAct(Cur, maint.peer)
       IN Commit(IF r.ok THEN CheckLoop(r.st, IndexOf(maint.peer) + 1)
                 ELSE [r.st EXCEPT !.maint = Sleeping],
                 "initiate")
    /\ UNCHANGED <<running, now, events>>

\* a retry timer fires
TimerFire(peer_id) ==
    /\ timers[peer_id] > 0
    /\ Commit(HolePunchRetry(Cur, peer_id), RetryOutcome(Cur, peer_id))
    /\ UNCHANGED <<running, now, events>>

\* add_peer called by the application
AddPeer(peer_id, addr) ==
    /\ Event
    /\ Commit([Cur EXCEPT !.peers = AddPeerTo(@, peer_id, addr)], "add_peer")
    /\ UNCHANGED <<running, now>>

\* cleanup_peers(max_age) called by the application
Cleanup(max_age) ==
    /\ Event
    /\ Commit([Cur EXCEPT !.peers = CleanupPeers(@, max_age)],
              IF CleanupPeers(peers, max_age) = peers
              THEN "cleanup_none" ELSE "cleanup_removed")
    /\ UNCHANGED <<running, now>>

\* stop
Stop ==
    /\ running
    /\ Event
    /\ running' = FALSE
    /\ Commit(Cur, "stop")
    /\ UNCHANGED now

\* the clock advances
Tick ==
    /\ Event
    /\ now' = now + TickStep
    /\ Commit(Cur, "tick")
    /\ UNCHANGED running

Next ==
    \/ \E message \in Messages, addr \in Addrs : Receive(message, addr)
    \/ ReceivePunch
    \/ Maintain
    \/ MaintainPunch
    \/ \E peer_id \in NodeIds : TimerFire(peer_id)
    \/ \E peer_id \in NodeIds, addr \in Addrs : AddPeer(peer_id, addr)
    \/ \E max_age \in MaxAges : Cleanup(max_age)
    \/ Stop
    \/ Tick

Spec == Init /\ [][Next]_vars

----------------------------------------------------------------------------
(* DiscoveryServer: src/meshnet/discovery/discovery_server.py              *)
(*                                                                         *)
(* self.nodes is a dict; it is kept here as the sequence of its items in   *)
(* insertion order.  The receive thread handles one datagram at a time.    *)
(* The cleanup thread takes no lock: _handle_discover iterates self.nodes  *)
(* while _cleanup_nodes may delete from it, and a dict whose size changes  *)
(* under an iterator makes the next step of the iteration raise            *)
(* RuntimeError, which _handle_message catches (lines 108-111).            *)
(* _handle_discover is therefore cut between the start of the iteration    *)
(* (line 165) and its end, and _cleanup_nodes between the collection of    *)
(* the inactive ids and each del.  A register that inserts a key while     *)
(* _cleanup_nodes collects makes that pass raise and delete nothing, which *)
(* is the behaviour of a pass that has not run.                            *)

\* now - info['last_seen'] < 300 in _handle_discover
ActiveAge == 300
\* _cleanup_nodes(max_age = 300)
SweepMaxAge == 300

\* the exclude_ids a discover carries: none, one peer, every node
ExcludeLists == {{}, {"p1"}, NodeIds}

\* the datagrams the server can be handed; 'local' is the pair local_ip /
\* local_port of a register, exclude_ids the list of a discover
ServerMessages ==
    [action : {"register"}, node_id : NodeIds \cup {NoId},
     local : LocalAddrs, exclude_ids : {{}}]
    \cup
    [action : {"discover"}, node_id : NodeIds \cup {NoId},
     local : {NoAddr}, exclude_ids : ExcludeLists]
    \cup
    [action : {"ping", "bogus", NoAction}, node_id : NodeIds \cup {NoId},
     local : {NoAddr}, exclude_ids : {{}}]

ServerIds(ns) == {ns[i].node_id : i \in DOMAIN ns}
ServerIndex(ns, id) == CHOOSE i \in DOMAIN ns : ns[i].node_id = id
ServerRecord(ns, id) == ns[ServerIndex(ns, id)]

ServerCur ==
    [nodes |-> server_nodes, reg_from |-> reg_from, disc |-> disc, sent |-> <<>>]

\* DiscoveryServer._send_response
SendResponse(sv, response, addr) ==
    [sv EXCEPT !.sent = Append(@, [response EXCEPT !.to = addr])]

Response(action) ==
    [action |-> action, to |-> NoAddr, node_id |-> NoId, external |-> NoAddr,
     nodes |-> <<>>]

\* DiscoveryServer._handle_register
ServerHandleRegister(sv, message, addr) ==
    IF message.node_id = NoId THEN sv
    ELSE LET node_id == message.node_id
             known == node_id \in ServerIds(sv.nodes)
             node_info ==
                 [node_id |-> node_id,
                  external |-> addr,
                  local |-> IF message.local # NoAddr THEN message.local
                            ELSE IF known THEN ServerRecord(sv.nodes, node_id).local
                            ELSE NoAddr,
                  last_seen |-> now]
             stored ==
                 IF known
                 THEN [sv.nodes EXCEPT ![ServerIndex(sv.nodes, node_id)] = node_info]
                 ELSE Append(sv.nodes, node_info)
         IN SendResponse([sv EXCEPT !.nodes = stored,
                                    !.reg_from = Put(@, node_id, addr)],
                         [Response("register_ok") EXCEPT !.node_id = node_id,
                                                         !.external = addr],
                         addr)

\* a ping that overwrites the requester's record the way a register does
ServerHandlePingRegisters(sv, message, addr) ==
    SendResponse([ServerHandleRegister(sv, message, addr) EXCEPT !.sent = sv.sent],
                 Response("pong"), addr)

\* DiscoveryServer._handle_ping
ServerHandlePing(sv, message, addr) ==
    LET replied == SendResponse(sv, Response("pong"), addr)
    IN IF message.node_id # NoId /\ message.node_id \in ServerIds(sv.nodes)
       THEN [replied EXCEPT
                !.nodes[ServerIndex(sv.nodes, message.node_id)].last_seen = now]
       ELSE replied

\* _handle_discover up to the start of the iteration over self.nodes
ServerDiscoverBegin(sv, message, addr) ==
    IF message.node_id = NoId THEN sv
    ELSE [sv EXCEPT !.disc = [pc |-> "iter", message |-> message, addr |-> addr,
                              now |-> now, table |-> sv.nodes]]

\* active_nodes of _handle_discover
ActiveNodes(ns, t, exclude_ids) ==
    SelectSeq(ns, LAMBDA info :
                     t - info.last_seen < ActiveAge /\ info.node_id \notin exclude_ids)

\* response['nodes'] of _handle_discover
ResponseNodes(active) ==
    [i \in DOMAIN active |->
        [node_id |-> active[i].node_id, external |-> active[i].external,
         local |-> active[i].local]]

\* the iteration has been disturbed by a del of the cleanup thread
IterationBroken == Len(server_nodes) # Len(disc.table)

\* the rest of _handle_discover
ServerDiscoverEnd(sv) ==
    IF IterationBroken THEN [sv EXCEPT !.disc = NoRequest]
    ELSE LET exclude_ids == sv.disc.message.exclude_ids \cup {sv.disc.message.node_id}
         IN SendResponse(
                [sv EXCEPT !.disc = NoRequest],
                [Response("discover_response") EXCEPT
                    !.nodes = ResponseNodes(ActiveNodes(sv.nodes, sv.disc.now,
                                                        exclude_ids))],
                sv.disc.addr)

\* DiscoveryServer._handle_message
ServerHandleMessage(sv, message, addr) ==
    CASE message.action = "register" -> ServerHandleRegister(sv, message, addr)
      [] message.action = "discover" -> ServerDiscoverBegin(sv, message, addr)
      [] message.action = "ping" -> ServerHandlePing(sv, message, addr)
      [] OTHER -> sv

\* inactive of _cleanup_nodes
Inactive(ns) ==
    LET old == SelectSeq(ns, LAMBDA info : now - info.last_seen > SweepMaxAge)
    IN [i \in DOMAIN old |-> old[i].node_id]

\* del self.nodes[node_id]
ServerDelete(ns, node_id) == SelectSeq(ns, LAMBDA info : info.node_id # node_id)

ServerAssign(sv, l) ==
    /\ server_nodes' = sv.nodes
    /\ reg_from' = sv.reg_from
    /\ disc' = sv.disc
    /\ sent' = sv.sent
    /\ started' = <<>>
    /\ last' = l

\* a step of the discovery server alone
ServerCommit(sv, l) ==
    /\ ServerAssign(sv, l)
    /\ UNCHANGED <<peers, hole_punching, timers, running, registered,
                   last_discover, recv, maint, net, vpnVars, dhtVars>>

\* DiscoveryServer.start; the threads of an earlier start have ended
ServerStart ==
    /\ ~server_running
    /\ disc = NoRequest
    /\ sweep = SweepSleeping
    /\ server_running' = TRUE
    /\ ServerCommit(ServerCur, "start")
    /\ UNCHANGED <<sweep, now, events>>

\* DiscoveryServer.stop
ServerStop ==
    /\ server_running
    /\ server_running' = FALSE
    /\ ServerCommit(ServerCur, "stop")
    /\ UNCHANGED <<sweep, now, events>>

\* DiscoveryServer._receive_loop: one datagram through _handle_message
ServerReceive(message, addr) ==
    /\ server_running
    /\ disc.pc = "idle"
    /\ Event
    /\ ServerCommit(ServerHandleMessage(ServerCur, message, addr), message.action)
    /\ UNCHANGED <<server_running, sweep, now>>

\* the receive thread finishes _handle_discover
DiscoverEnd ==
    /\ disc.pc = "iter"
    /\ ServerCommit(ServerDiscoverEnd(ServerCur),
                    IF IterationBroken THEN "discover_error" ELSE "discover_response")
    /\ UNCHANGED <<server_running, sweep, now, events>>

\* _cleanup_loop wakes: _cleanup_nodes collects the inactive ids
SweepCollect ==
    /\ server_running
    /\ sweep.pc = "sleep"
    /\ sweep' = IF Inactive(server_nodes) = <<>> THEN SweepSleeping
                ELSE [pc |-> "delete", inactive |-> Inactive(server_nodes)]
    /\ ServerCommit([ServerCur EXCEPT !.sent = sent], last)
    /\ UNCHANGED <<server_running, now, events>>

\* _cleanup_nodes deletes the next inactive id
SweepDelete ==
    /\ sweep.pc = "delete"
    /\ sweep' = IF Len(sweep.inactive) = 1 THEN SweepSleeping
                ELSE [sweep EXCEPT !.inactive = Tail(@)]
    /\ ServerCommit([ServerCur EXCEPT !.nodes = ServerDelete(@, Head(sweep.inactive))],
                    "sweep")
    /\ UNCHANGED <<server_running, now, events>>

\* the clock advances; a handler or a cleanup pass under way takes less than
\* one step of the clock
ServerTick ==
    /\ now < MaxTicks * TickStep
    /\ disc.pc = "idle"
    /\ sweep.pc = "sleep"
    /\ now' = now + TickStep
    /\ ServerCommit(ServerCur, "tick")
    /\ UNCHANGED <<server_running, sweep, events>>

ServerNext ==
    \/ ServerStart
    \/ ServerStop
    \/ \E message \in ServerMessages, addr \in Addrs : ServerReceive(message, addr)
    \/ DiscoverEnd
    \/ SweepCollect
    \/ SweepDelete
    \/ ServerTick

ServerSpec == Init /\ [][ServerNext]_vars

----------------------------------------------------------------------------
(* Properties *)

Age(p) == now - peers[p].last_seen

Msg(action, node_id) ==
    [action |-> action, node_id |-> node_id, has_nodes |-> FALSE, nodes |-> <<>>]

\* C1: every peer has at most one pending retry timer at any time (the
\* attempt records are a dict keyed by peer, so each peer has at most one
\* record; the timers are what a second _initiate_hole_punch multiplies).
C1_AtMostOneTimer == \A p \in NodeIds : timers[p] <= 1

\* C2: a HolePunchAttempt record exists for p if and only if p is in the
\* peer table with status = punching.
C2_AttemptIffPunching ==
    \A p \in NodeIds :
        (p \in DOMAIN hole_punching)
            <=> (p \in DOMAIN peers /\ peers[p].status = "punching")

\* C3: a hole_punch_ack from p processed while an attempt for p is outstanding
\* leaves no attempt record for p, and p in the table, active, at the ack's
\* source address.
C3_AckEndsAttempt ==
    [][\A p \in NodeIds, a \in Addrs :
          (p \in DOMAIN hole_punching /\ Receive(Msg("hole_punch_ack", p), a))
              => /\ p \notin DOMAIN hole_punching'
                 /\ p \in DOMAIN peers'
                 /\ peers'[p].status = "active"
                 /\ peers'[p].external = a]_vars

Exhausts(p) == TimerFire(p) /\ RetryOutcome(Cur, p) = "retry_exhausted"

C5_HolePunchActivates ==
    [][\A s \in NodeIds, a \in Addrs :
          Receive(Msg("hole_punch", s), a)
              => /\ s \in DOMAIN peers'
                 /\ peers'[s].external = a
                 /\ peers'[s].status = "active"
                 /\ peers'[s].last_seen = now
                 /\ sent' = <<[action |-> "hole_punch_ack", to |-> a]>>]_vars

\* a hole_punch has just been answered, from a peer first learned from the
\* discovery server (it has a local endpoint) that is now active at the
\* datagram's source
C5_Witness ==
    /\ last = "receive"
    /\ Len(sent) = 1
    /\ sent[1].action = "hole_punch_ack"
    /\ \E s \in DOMAIN peers :
          /\ peers[s].external = sent[1].to
          /\ peers[s].status = "active"
          /\ peers[s].local # NoAddr

\* C6: a hole_punch_ack whose node_id is not in the peer table, whatever its
\* source address, leaves that peer in the table with status = active.
C6_AckAddsUnknownPeer ==
    [][\A p \in PeerIds, a \in Addrs :
          (p \notin DOMAIN peers /\ Receive(Msg("hole_punch_ack", p), a))
              => (p \in DOMAIN peers' /\ peers'[p].status = "active")]_vars

\* C7: the peer table never holds an entry keyed by the node's own node_id.
C7_NoSelfEntry == SelfId \notin DOMAIN peers

\* C8: every peer in the table has now - last_seen <= 300 s.
C8_NoEntryOlderThanMaxAge == \A p \in DOMAIN peers : Age(p) <= DefaultMaxAge

\* C9: right after cleanup_peers(max_age) no remaining peer is older than
\* max_age, and every peer that was not older than max_age is still there
\* with all its fields unchanged; nothing else of the node changes.
C9_CleanupRemovesExactlyTheStale ==
    [][\A max_age \in MaxAges :
          Cleanup(max_age)
              => /\ \A p \in DOMAIN peers' : now - peers'[p].last_seen <= max_age
                 /\ \A p \in DOMAIN peers :
                       now - peers[p].last_seen <= max_age
                           => (p \in DOMAIN peers' /\ peers'[p] = peers[p])
                 /\ DOMAIN peers' \subseteq DOMAIN peers]_vars

\* cleanup_peers has just removed a peer and kept another
C9_Witness ==
    /\ last = "cleanup_removed"
    /\ peers # <<>>

\* C10: an inbound control message that carries the node_id of a peer already
\* in the table sets that peer's last_seen to the receive time, whatever its
\* action.
C10_EveryMessageTouchesSender ==
    [][\A m \in Messages, a \in Addrs :
          (/\ m.action # NoAction
           /\ m.node_id \in PeerIds
           /\ m.node_id \in DOMAIN peers
           /\ Receive(m, a))
              => (m.node_id \in DOMAIN peers' /\ peers'[m.node_id].last_seen = now)]_vars

----------------------------------------------------------------------------
(* Properties of the discovery server *)

\* the nodes a discover in progress has to be answered with: registered when
\* the request arrived, seen less than 300 s before, neither the requester
\* nor excluded
Wanted ==
    {A \in ServerIds(disc.table) :
        /\ disc.now - ServerRecord(disc.table, A).last_seen < ActiveAge
        /\ A # disc.message.node_id
        /\ A \notin disc.message.exclude_ids}

Listed(response) == {response.nodes[i].node_id : i \in DOMAIN response.nodes}

\* C11: when the server has processed a register of A from address a and A's
\* record has not expired, a discover from another node B that does not
\* exclude A is answered with one discover_response, sent to B's address,
\* that lists A with external endpoint a.
C11_DiscoverReturnsRegisteredEndpoint ==
    [][DiscoverEnd
          => \A A \in Wanted :
                A \in DOMAIN reg_from
                    => /\ Len(sent') = 1
                       /\ sent'[1].action = "discover_response"
                       /\ sent'[1].to = disc.addr
                       /\ \E i \in DOMAIN sent'[1].nodes :
                             /\ sent'[1].nodes[i].node_id = A
                             /\ sent'[1].nodes[i].external = reg_from[A]]_vars

\* C12: every discover_response lists exactly the registered nodes seen less
\* than 300 s before that are neither the requester nor excluded, each once;
\* and a discover that excludes every registered node is still answered,
\* with an empty list.
C12_ResponseListsExactlyTheActive ==
    [][DiscoverEnd
          => /\ \A j \in DOMAIN sent' :
                   /\ Listed(sent'[j]) = Wanted
                   /\ Len(sent'[j].nodes) = Cardinality(Wanted)
             /\ (ServerIds(disc.table)
                     \subseteq disc.message.exclude_ids \cup {disc.message.node_id})
                    => /\ Len(sent') = 1
                       /\ sent'[1].action = "discover_response"
                       /\ sent'[1].nodes = <<>>]_vars

\* C13: a ping is answered with exactly one pong, to its source; it sets
\* last_seen = now in the requester's record if there is one, creates no
\* record, and leaves every other field and every other record as it was.
C13_PingTouchesOnlyLastSeen ==
    [][\A m \in ServerMessages, a \in Addrs :
          (m.action = "ping" /\ ServerReceive(m, a))
              => /\ sent' = <<[Response("pong") EXCEPT !.to = a]>>
                 /\ Len(server_nodes') = Len(server_nodes)
                 /\ \A i \in DOMAIN server_nodes :
                       server_nodes'[i] =
                           IF server_nodes[i].node_id = m.node_id
                           THEN [server_nodes[i] EXCEPT !.last_seen = now]
                           ELSE server_nodes[i]]_vars

\* a ping has just refreshed one record, registered earlier, next to a
\* record it left alone
C13_Witness ==
    /\ last = "ping"
    /\ \E i, j \in DOMAIN server_nodes :
          /\ server_nodes[i].last_seen = now
          /\ server_nodes[j].last_seen < now

----------------------------------------------------------------------------
(* Registration: a MeshNode and the DiscoveryServer it was given           *)
(*                                                                         *)
(* net holds the datagrams in flight between the two.  The node's          *)
(* maintenance thread and the two receive loops run for as long as their   *)
(* process runs, so each of them is weakly fair; the server's cleanup      *)
(* thread, its restart and the loss of a datagram are not.                 *)

\* the node's address as the server sees it, and the local_ip / local_port
\* it reports in register
NodeAddr == LoAddr
NodeLocal == WanAddr

\* the datagrams of st.sent addressed to the discovery server, as the server
\* reads them (mesh_node.py, lines 148-154 and 195-199)
ToServer(st) ==
    {[to |-> "server",
      message |-> [action |-> st.sent[i].action,
                   node_id |-> SelfId,
                   local |-> IF st.sent[i].action = "register" THEN NodeLocal
                             ELSE NoAddr,
                   exclude_ids |-> IF st.sent[i].action = "discover"
                                   THEN DOMAIN st.peers ELSE {}]] :
        i \in {j \in DOMAIN st.sent : st.sent[j].to = ServerAddr}}

\* the server's responses, as the node reads them (discovery_server.py, lines
\* 145-151, 171-185 and 192-195)
ToNode(sv) ==
    {[to |-> "node",
      message |-> [action |-> sv.sent[i].action,
                   node_id |-> sv.sent[i].node_id,
                   has_nodes |-> sv.sent[i].action = "discover_response",
                   nodes |-> sv.sent[i].nodes]] :
        i \in DOMAIN sv.sent}

\* the maintenance thread of the node runs one pass
RegMaintain ==
    /\ running
    /\ maint.pc = "sleep"
    /\ LET st == MaintenancePass(Cur)
       IN /\ Assign(st, "maintain")
          /\ net' = net \cup ToServer(st)
    /\ UNCHANGED <<running, now, events, serverVars, vpnVars, dhtVars>>

\* the node's receive loop takes a datagram of the server
RegNodeReceive(d) ==
    /\ running
    /\ recv.pc = "idle"
    /\ d \in net
    /\ d.to = "node"
    /\ LET st == MeshHandleMessage(Cur, d.message, ServerAddr)
       IN /\ Assign(st, "receive")
          /\ net' = (net \ {d}) \cup ToServer(st)
    /\ UNCHANGED <<running, now, events, serverVars, vpnVars, dhtVars>>

\* the fields of the server take the values of sv, its responses are in flight
RegServerCommit(sv, l, taken) ==
    /\ ServerAssign(sv, l)
    /\ net' = (net \ taken) \cup ToNode(sv)
    /\ UNCHANGED <<peers, hole_punching, timers, running, registered,
                   last_discover, recv, maint, vpnVars, dhtVars>>

\* the server's receive loop takes a datagram of the node
RegServerReceive(d) ==
    /\ server_running
    /\ disc.pc = "idle"
    /\ d \in net
    /\ d.to = "server"
    /\ RegServerCommit(ServerHandleMessage(ServerCur, d.message, NodeAddr),
                       d.message.action, {d})
    /\ UNCHANGED <<server_running, sweep, now, events>>

\* the server's receive thread finishes _handle_discover
RegDiscoverEnd ==
    /\ disc.pc = "iter"
    /\ RegServerCommit(ServerDiscoverEnd(ServerCur),
                       IF IterationBroken THEN "discover_error"
                       ELSE "discover_response", {})
    /\ UNCHANGED <<server_running, sweep, now, events>>

\* the server process is restarted: a new DiscoveryServer, started
RegServerRestart ==
    /\ Event
    /\ server_running' = TRUE
    /\ sweep' = SweepSleeping
    /\ ServerCommit([ServerCur EXCEPT !.nodes = <<>>, !.disc = NoRequest,
                                      !.reg_from = <<>>], "restart")
    /\ UNCHANGED now

\* a datagram is lost
RegLose(d) ==
    /\ d \in net
    /\ Event
    /\ net' = net \ {d}
    /\ sent' = <<>>
    /\ started' = <<>>
    /\ last' = "lost"
    /\ UNCHANGED <<peers, hole_punching, timers, running, registered,
                   last_discover, now, recv, maint, serverVars, vpnVars, dhtVars>>

\* the clock advances
RegTick ==
    /\ now < MaxTicks * TickStep
    /\ disc.pc = "idle"
    /\ sweep.pc = "sleep"
    /\ now' = now + TickStep
    /\ sent' = <<>>
    /\ started' = <<>>
    /\ last' = "tick"
    /\ UNCHANGED <<peers, hole_punching, timers, running, registered,
                   last_discover, recv, maint, events, serverVars, net, vpnVars, dhtVars>>

RegNext ==
    \/ RegMaintain
    \/ \E d \in net : RegNodeReceive(d)
    \/ \E d \in net : RegServerReceive(d)
    \/ RegDiscoverEnd
    \/ ServerStart
    \/ ServerStop
    \/ RegServerRestart
    \/ SweepCollect
    \/ SweepDelete
    \/ \E d \in net : RegLose(d)
    \/ RegTick

RegSpec ==
    /\ Init
    /\ [][RegNext]_vars
    /\ WF_vars(RegMaintain)
    /\ WF_vars(\E d \in net : RegNodeReceive(d))
    /\ WF_vars(\E d \in net : RegServerReceive(d))
    /\ WF_vars(RegDiscoverEnd)
    /\ WF_vars(ServerStart)

OnServer == SelfId \in ServerIds(server_nodes)

\* C14: whenever the node counts itself registered and the server holds no
\* record of it (the server was restarted, or dropped the record), the node
\* re-registers: the server holds its record again later on, unless the
\* server is down.
C14_NodeRegistersAgain ==
    (registered /\ ~OnServer) ~> (OnServer \/ ~server_running)

----------------------------------------------------------------------------
(* VpnNode: src/meshnet/core/vpn_node.py                                   *)
(*                                                                         *)
(* A VpnNode is a MeshNode with a TUN adapter, a routing table and the     *)
(* network's shared key.  VpnNode.__init__ reads self._capabilities (line  *)
(* 75), an attribute that neither Node nor MeshNode defines; the states    *)
(* below are those of a node whose class supplies it, so that __init__     *)
(* completes.  start() starts the threads of the mesh node before          *)
(* _setup_tun_interface runs, so datagrams can arrive while self.tun is    *)
(* still None.  An IP packet is kept as its length, version and two        *)
(* addresses; a ciphertext as the key and nonce it was made with and the   *)
(* packet inside; the 'data' of a vpn_packet as whether it is hex and the  *)
(* bytes it encodes.                                                       *)

\* len(packet) < 20
HeaderLen == 20
\* now - info.get('last_seen', 0) < 60 in get_active_peers
ActiveWindow == 60
\* now - last_route_update > 30
GossipInterval == 30

\* self.tun_address without its prefix length
OwnIp == "10.0.0.1"
OverlayIps == {OwnIp, "10.0.0.2", "10.0.0.3"}
NoIp == "-"

\* self.encryption_key, and the key of somebody outside the network
NetKey == "network key"
Nonces == {"nonce a", "nonce b"}

ShortPacket(src) ==
    [len |-> HeaderLen - 1, version |-> 4, src |-> src, dst |-> NoIp]
Ipv4Packet(src, dst) ==
    [len |-> HeaderLen, version |-> 4, src |-> src, dst |-> dst]
Ipv6Packet(src) ==
    [len |-> 2 * HeaderLen, version |-> 6, src |-> src, dst |-> NoIp]

\* the plaintexts peers send: too short for a header, or from any overlay IP
PeerPackets == {ShortPacket(NoIp)} \cup {Ipv4Packet(ip, OwnIp) : ip \in OverlayIps}
\* the packets the kernel hands to the TUN reader
TunPackets ==
    {ShortPacket(OwnIp), Ipv6Packet(OwnIp)}
        \cup {Ipv4Packet(OwnIp, ip) : ip \in OverlayIps}

\* SecretBox(key).encrypt(packet, nonce)
BoxEncrypt(key, packet, nonce) == [key |-> key, nonce |-> nonce, plain |-> packet]
\* VpnNode._encrypt_packet
EncryptPacket(packet, nonce) == BoxEncrypt(NetKey, packet, nonce)
\* self.box.decrypt(encrypted) raises unless the box was made with the key
Authentic(encrypted) == encrypted.key = NetKey
\* VpnNode._decrypt_packet
DecryptPacket(encrypted) == encrypted.plain
\* bytes.hex()
ToHex(encrypted) == [is_hex |-> TRUE, bytes |-> encrypted]
\* a 'data' string bytes.fromhex() raises ValueError on
NotHex == [is_hex |-> FALSE, bytes |-> BoxEncrypt(NetKey, ShortPacket(NoIp), "nonce a")]
\* bytes.fromhex()
FromHex(data) == data.bytes

\* hex of a ciphertext made with another key: decrypt() raises on it
Forged == ToHex(BoxEncrypt("foreign key", Ipv4Packet("10.0.0.2", OwnIp), "nonce a"))

\* the 'data' a vpn_packet can carry
PacketData ==
    {NotHex, Forged} \cup {ToHex(EncryptPacket(p, "nonce a")) : p \in PeerPackets}

\* the 'routes' a vpn_route_update can carry: none, one route, or a route for
\* each of the two other overlay addresses
RouteMaps ==
    {<<>>} \cup {[x \in {ip} |-> n] : ip \in OverlayIps, n \in NodeIds}
           \cup [OverlayIps \ {OwnIp} -> NodeIds]

VpnMessage(action, node_id) ==
    [action |-> action, node_id |-> node_id, has_nodes |-> FALSE, nodes |-> <<>>,
     has_data |-> FALSE, data |-> NotHex, has_routes |-> FALSE, routes |-> <<>>]

\* the source addresses of the datagrams a VpnNode is handed
VpnAddrs == {WanAddr}

\* the datagrams a VpnNode can be handed
VpnMessages ==
    {[VpnMessage("vpn_packet", n) EXCEPT !.has_data = TRUE, !.data = d] :
        n \in PeerIds \cup {NoId}, d \in PacketData}
    \cup {VpnMessage("vpn_packet", n) : n \in PeerIds}
    \cup {[VpnMessage("vpn_route_update", "p1") EXCEPT !.has_routes = TRUE, !.routes = r] :
        r \in RouteMaps}
    \cup {VpnMessage("vpn_route_update", "p1"),
          [VpnMessage("vpn_route_update", NoId) EXCEPT !.has_routes = TRUE]}
    \cup {VpnMessage(a, n) :
        a \in {"hole_punch", "hole_punch_ack", "pong", "ping", NoAction}, n \in PeerIds}

\* the node's fields, those of the VPN layer included
VpnCur ==
    [peers |-> peers, hp |-> hole_punching, timers |-> timers, sent |-> <<>>,
     registered |-> registered, last_discover |-> last_discover,
     recv |-> recv, maint |-> maint, started |-> <<>>,
     routing_table |-> routing_table, ip_mapping |-> ip_mapping,
     tun_written |-> <<>>]

\* MeshNode.get_active_peers, in the order of PeerOrder
ActivePeers(ps) ==
    SelectSeq(PeerOrder, LAMBDA p :
        /\ p \in DOMAIN ps
        /\ ps[p].status = "active"
        /\ now - ps[p].last_seen < ActiveWindow)

\* Node.send_to_peer with a message that carries a payload
SendPayloadToPeer(v, peer_id, action, payload) ==
    IF peer_id \notin DOMAIN v.peers THEN v
    ELSE [v EXCEPT !.sent = Append(@, [action |-> action,
                                       to |-> v.peers[peer_id].external,
                                       data |-> payload])]

\* VpnNode._send_vpn_packet
SendVpnPacket(v, peer_id, encrypted) ==
    SendPayloadToPeer(v, peer_id, "vpn_packet", ToHex(encrypted))

RECURSIVE SendToEach(_, _, _, _)
\* for peer_id in active_peers: send
SendToEach(v, ids, action, payload) ==
    IF ids = <<>> THEN v
    ELSE SendToEach(SendPayloadToPeer(v, Head(ids), action, payload),
                    Tail(ids), action, payload)

\* VpnNode._broadcast_vpn_packet
BroadcastVpnPacket(v, packet, nonce) ==
    SendToEach(v, ActivePeers(v.peers), "vpn_packet",
               ToHex(EncryptPacket(packet, nonce)))

\* _handle_tun_packet that broadcasts when the routed node is not a peer
HandleTunPacketFallsBack(v, packet, nonce) ==
    IF packet.len < HeaderLen THEN v
    ELSE IF packet.version # 4 THEN v
    ELSE IF packet.dst \in DOMAIN v.routing_table
            /\ v.routing_table[packet.dst] \in DOMAIN v.peers
    THEN SendVpnPacket(v, v.routing_table[packet.dst], EncryptPacket(packet, nonce))
    ELSE BroadcastVpnPacket(v, packet, nonce)

\* VpnNode._handle_tun_packet
HandleTunPacket(v, packet, nonce) ==
    IF packet.len < HeaderLen THEN v
    ELSE IF packet.version # 4 THEN v
    ELSE IF packet.dst \in DOMAIN v.routing_table
    THEN SendVpnPacket(v, v.routing_table[packet.dst], EncryptPacket(packet, nonce))
    ELSE BroadcastVpnPacket(v, packet, nonce)

\* lines 278-282 of _handle_vpn_packet
LearnRoute(v, peer_id, src_ip) ==
    IF peer_id \notin DOMAIN v.ip_mapping \/ v.ip_mapping[peer_id] # src_ip
    THEN [v EXCEPT !.ip_mapping = Put(@, peer_id, src_ip),
                   !.routing_table = Put(@, src_ip, peer_id)]
    ELSE v

\* _handle_vpn_packet that reads the packet without authenticating it
HandleVpnPacketUnauthenticated(v, message) ==
    IF ~message.has_data \/ message.node_id = NoId THEN v
    ELSE IF ~message.data.is_hex THEN v
    ELSE LET packet == DecryptPacket(FromHex(message.data))
             v1 == IF packet.len >= HeaderLen
                   THEN LearnRoute(v, message.node_id, packet.src)
                   ELSE v
         IN IF tun = "open"
            THEN [v1 EXCEPT !.tun_written = Append(@, packet)]
            ELSE v1

\* VpnNode._handle_vpn_packet; tun.write() on an adapter that is not open
\* writes nothing
HandleVpnPacket(v, message) ==
    IF ~message.has_data \/ message.node_id = NoId THEN v
    ELSE IF ~message.data.is_hex THEN v
    ELSE IF ~Authentic(FromHex(message.data)) THEN v
    ELSE LET packet == DecryptPacket(FromHex(message.data))
             v1 == IF packet.len >= HeaderLen
                   THEN LearnRoute(v, message.node_id, packet.src)
                   ELSE v
         IN IF tun = "open"
            THEN [v1 EXCEPT !.tun_written = Append(@, packet)]
            ELSE v1

\* _handle_route_update without the test of lines 305-307: it also enters the
\* pairs whose node is the receiver itself
HandleRouteUpdateWritesOwn(v, message) ==
    IF message.node_id = NoId \/ ~message.has_routes THEN v
    ELSE LET routes == message.routes
         IN [v EXCEPT !.routing_table =
                [ip \in DOMAIN @ \cup DOMAIN routes |->
                    IF ip \in DOMAIN routes THEN routes[ip] ELSE @[ip]]]

\* VpnNode._handle_route_update
HandleRouteUpdate(v, message) ==
    IF message.node_id = NoId \/ ~message.has_routes THEN v
    ELSE LET routes == message.routes
             taken == {ip \in DOMAIN routes : routes[ip] # SelfId}
         IN [v EXCEPT !.routing_table =
                [ip \in DOMAIN @ \cup taken |->
                    IF ip \in taken THEN routes[ip] ELSE @[ip]]]

\* VpnNode._handle_message
VpnHandleMessage(v, message, addr) ==
    IF message.action = NoAction THEN v
    ELSE IF message.action = "vpn_packet" /\ tun # "none"
    THEN HandleVpnPacket(v, message)
    ELSE IF message.action = "vpn_route_update"
    THEN HandleRouteUpdate(v, message)
    ELSE MeshHandleMessage(v, message, addr)

\* the payload of a vpn_packet raises in bytes.fromhex() or in decrypt()
BadPayload(message) ==
    /\ message.action = "vpn_packet"
    /\ message.has_data
    /\ ~message.data.is_hex \/ ~Authentic(FromHex(message.data))

\* what the log shows of a datagram: the error of line 289, or nothing
VpnOutcome(message) ==
    IF BadPayload(message) /\ message.node_id # NoId /\ tun # "none"
    THEN "vpn_packet_error" ELSE "receive"

\* VpnNode._send_route_updates
SendRouteUpdates(v) ==
    SendToEach(v, ActivePeers(v.peers), "vpn_route_update", v.routing_table)

\* a step of the VPN node
VpnCommit(v, l) ==
    /\ Assign(v, l)
    /\ routing_table' = v.routing_table
    /\ ip_mapping' = v.ip_mapping
    /\ tun_written' = v.tun_written
    /\ UNCHANGED <<serverVars, net, dhtVars>>

\* _setup_tun_interface: the adapter opens and the node's own route is
\* entered, or open() fails and the method returns
SetupTun(opened) ==
    /\ running
    /\ tun = "none"
    /\ tun' = IF opened THEN "open" ELSE "closed"
    /\ VpnCommit(IF opened
                 THEN [VpnCur EXCEPT !.ip_mapping = Put(@, SelfId, OwnIp),
                                     !.routing_table = Put(@, OwnIp, SelfId)]
                 ELSE VpnCur,
                 "setup_tun")
    /\ UNCHANGED <<running, now, events>>

\* _receive_loop: one datagram through VpnNode._handle_message
VpnReceive(message, addr) ==
    /\ running
    /\ recv.pc = "idle"
    /\ Event
    /\ VpnCommit(VpnHandleMessage(VpnCur, message, addr), VpnOutcome(message))
    /\ UNCHANGED <<running, now, tun>>

\* the TUN reader hands one packet to _handle_tun_packet
TunRead(packet, nonce) ==
    /\ tun = "open"
    /\ Event
    /\ VpnCommit(HandleTunPacket(VpnCur, packet, nonce), "tun_read")
    /\ UNCHANGED <<running, now, tun>>

\* VpnNode._maintenance_loop: its first statement in the loop is
\* super()._maintenance_loop(), which loops for as long as self.running;
\* each wake-up is one pass of that inner loop
VpnMaintain ==
    /\ running
    /\ maint.pc = "sleep"
    /\ VpnCommit(MaintenancePass(VpnCur), "maintain")
    /\ UNCHANGED <<running, now, events, tun>>

\* the maintenance thread resumes inside _initiate_hole_punch
VpnMaintainPunch ==
    /\ maint.pc = "punch"
    /\ LET r == InitiateAct(VpnCur, maint.peer)
       IN VpnCommit(IF r.ok THEN CheckLoop(r.st, IndexOf(maint.peer) + 1)
                    ELSE [r.st EXCEPT !.maint = Sleeping],
                    "initiate")
    /\ UNCHANGED <<running, now, events, tun>>

\* the inner loop has ended with self.running: lines 339-347 run once, with
\* last_route_update = 0, and the outer loop ends
VpnMaintainExit ==
    /\ ~running
    /\ maint.pc = "sleep"
    /\ VpnCommit([(IF now - 0 > GossipInterval THEN SendRouteUpdates(VpnCur)
                   ELSE VpnCur)
                     EXCEPT !.maint = [pc |-> "done", peer |-> NoId]],
                 "maintain_exit")
    /\ UNCHANGED <<running, now, events, tun>>

\* a retry timer fires
VpnTimerFire(peer_id) ==
    /\ timers[peer_id] > 0
    /\ VpnCommit(HolePunchRetry(VpnCur, peer_id), RetryOutcome(VpnCur, peer_id))
    /\ UNCHANGED <<running, now, events, tun>>

\* VpnNode.stop
VpnStop ==
    /\ running
    /\ running' = FALSE
    /\ tun' = "none"
    /\ VpnCommit(VpnCur, "stop")
    /\ UNCHANGED <<now, events>>

\* the clock advances
VpnTick ==
    /\ now < MaxVpnTicks * TickStep
    /\ now' = now + TickStep
    /\ VpnCommit(VpnCur, "tick")
    /\ UNCHANGED <<running, events, tun>>

VpnNext ==
    \/ \E opened \in BOOLEAN : SetupTun(opened)
    \/ \E message \in VpnMessages, addr \in VpnAddrs : VpnReceive(message, addr)
    \/ \E packet \in TunPackets, nonce \in Nonces : TunRead(packet, nonce)
    \/ VpnMaintain
    \/ VpnMaintainPunch
    \/ VpnMaintainExit
    \/ \E peer_id \in NodeIds : VpnTimerFire(peer_id)
    \/ VpnStop
    \/ VpnTick

\* the maintenance thread runs for as long as the process does
VpnSpec ==
    /\ Init
    /\ [][VpnNext]_vars
    /\ WF_vars(VpnMaintain)

----------------------------------------------------------------------------
(* Properties of the VPN node *)

RouteUpdateSent == \E i \in DOMAIN sent : sent[i].action = "vpn_route_update"

\* C15: while the node is running and has an active peer, and more than a
\* gossip interval has passed since the last vpn_route_update (none was sent
\* yet, and the clock is past 30 s), it sends a vpn_route_update sooner or
\* later.
C15_GossipWhileRunning ==
    (running /\ ActivePeers(peers) # <<>> /\ now > GossipInterval)
        ~> (RouteUpdateSent \/ ~running \/ ActivePeers(peers) = <<>>)

\* a vpn_packet of a peer that decrypts to a packet with an IP header
Decrypts(m) ==
    /\ m.action = "vpn_packet"
    /\ m.node_id \in PeerIds
    /\ m.has_data
    /\ ~BadPayload(m)
    /\ DecryptPacket(FromHex(m.data)).len >= HeaderLen

\* C16: after a vpn_packet from n that decrypts to a packet with source IP s
\* has been handled, routing_table[s] = n, whatever the two tables held.
C16_PacketRoutesSourceToSender ==
    [][\A m \in VpnMessages, a \in VpnAddrs :
          (Decrypts(m) /\ tun # "none" /\ VpnReceive(m, a))
              => LET s == DecryptPacket(FromHex(m.data)).src
                 IN /\ s \in DOMAIN routing_table'
                    /\ routing_table'[s] = m.node_id]_vars

\* C17: ip_mapping is the inverse of routing_table on its domain.
C17_MappingInvertsRouting ==
    \A n \in DOMAIN ip_mapping :
        /\ ip_mapping[n] \in DOMAIN routing_table
        /\ routing_table[ip_mapping[n]] = n

\* C18: while the TUN interface is set up, the route of the node's own
\* overlay IP points to the node itself.
C18_OwnRoutePointsToSelf ==
    tun = "open"
        => (OwnIp \in DOMAIN routing_table /\ routing_table[OwnIp] = SelfId)

\* the external endpoints of the peers in ids
Endpoints(ids) == {peers[ids[i]].external : i \in DOMAIN ids}

\* C19: an IPv4 packet of at least 20 bytes read from TUN for another overlay
\* IP goes, when routing_table has an entry for its destination, as exactly
\* one vpn_packet to that entry's node; otherwise as one ciphertext, the same
\* for all, to each active peer and to nobody else.
C19_TunPacketRoutedOrBroadcast ==
    [][\A packet \in TunPackets, nonce \in Nonces :
          (/\ packet.len >= HeaderLen
           /\ packet.version = 4
           /\ packet.dst # OwnIp
           /\ TunRead(packet, nonce))
              => LET payload == ToHex(EncryptPacket(packet, nonce))
                     vpn_packet(to) ==
                         [action |-> "vpn_packet", to |-> to, data |-> payload]
                 IN IF packet.dst \in DOMAIN routing_table
                    THEN /\ routing_table[packet.dst] \in DOMAIN peers
                         /\ sent' = <<vpn_packet(
                                peers[routing_table[packet.dst]].external)>>
                    ELSE /\ Len(sent') = Len(ActivePeers(peers))
                         /\ \A i \in DOMAIN sent' :
                               sent'[i] = vpn_packet(
                                   peers[ActivePeers(peers)[i]].external)]_vars

\* what a dropped vpn_packet must leave alone
Untouched ==
    /\ routing_table' = routing_table
    /\ ip_mapping' = ip_mapping
    /\ peers' = peers
    /\ tun_written' = <<>>
    /\ sent' = <<>>
    /\ recv' = Idle
    /\ running' = running

----------------------------------------------------------------------------
(* Hole-punch retry timers: src/meshnet/discovery/mesh_node.py, 283-358 *)

\* C29: once stop() has set running to False, or once the peer has left the
\* peer table, a retry timer that fires sends no datagram and starts no
\* further timer: the fired timer is gone and nothing replaces it.
C29_StaleTimerIsNoOp ==
    [][\A p \in NodeIds :
          TimerFire(p) /\ (~running \/ p \notin DOMAIN peers)
          => /\ sent' = <<>>
             /\ started' = <<>>
             /\ timers' = [timers EXCEPT ![p] = @ - 1]]_vars

\* the node was stopped with an attempt outstanding and its timer has fired
C29_Witness ==
    /\ ~running
    /\ last = "retry_noop"
    /\ hole_punching # <<>>
    /\ \E p \in DOMAIN hole_punching : p \in DOMAIN peers

\* C30: every retry timer started for an attempt has the delay
\* min(5 s, 0.5 s * 2^attempts) for the attempt's count of attempts at that
\* moment, the count starting at 0 with the first transmission (so that the
\* waits are 0.5 s, 1 s, 2 s, 4 s, 5 s).
C30_DelaysFollowBackoff ==
    [][\A i \in DOMAIN started' :
          LET t == started'[i]
          IN t.peer \in DOMAIN hole_punching'
             /\ t.delay = Backoff(hole_punching'[t.peer].attempts)]_vars

----------------------------------------------------------------------------
(* DHTNode: src/meshnet/discovery/dht.py                                   *)
(*                                                                         *)
(* A node id is a string of hexadecimal digits, kept here as the sequence  *)
(* of its characters.  Python's integers are unbounded; an integer is kept *)
(* as its binary digits, most significant first and without leading zeros  *)
(* (zero is the empty sequence), so that the 160-bit XOR of two ids is     *)
(* computed exactly.                                                       *)

\* ID_BITS = 160
ID_BITS == 160
\* K = 20
K == 20
\* len(node_id) != 40
IdLen == 40

\* the characters int(s, 16) accepts as digits, with their values
HexVal ==
    [c \in {"0", "1", "2", "3", "4", "5", "6", "7", "8", "9",
            "a", "b", "c", "d", "e", "f", "A", "B", "C", "D", "E", "F"} |->
        CASE c = "0" -> 0 [] c = "1" -> 1 [] c = "2" -> 2 [] c = "3" -> 3
          [] c = "4" -> 4 [] c = "5" -> 5 [] c = "6" -> 6 [] c = "7" -> 7
          [] c = "8" -> 8 [] c = "9" -> 9
          [] c \in {"a", "A"} -> 10 [] c \in {"b", "B"} -> 11
          [] c \in {"c", "C"} -> 12 [] c \in {"d", "D"} -> 13
          [] c \in {"e", "E"} -> 14 [] c \in {"f", "F"} -> 15]

\* int(s, 16) does not raise ValueError
IsHex(s) == Len(s) > 0 /\ \A i \in DOMAIN s : s[i] \in DOMAIN HexVal

\* str.lower() on an id
Lower(s) ==
    [i \in DOMAIN s |->
        CASE s[i] = "A" -> "a" [] s[i] = "B" -> "b" [] s[i] = "C" -> "c"
          [] s[i] = "D" -> "d" [] s[i] = "E" -> "e" [] s[i] = "F" -> "f"
          [] OTHER -> s[i]]

\* an integer without its leading zero digits
Strip(b) ==
    IF \A i \in DOMAIN b : b[i] = 0 THEN <<>>
    ELSE LET first == CHOOSE i \in DOMAIN b :
                          b[i] = 1 /\ \A j \in 1..(i - 1) : b[j] = 0
         IN SubSeq(b, first, Len(b))

\* int(s, 16): four binary digits for each hexadecimal digit
ParseHex(s) ==
    Strip([i \in 1..(4 * Len(s)) |->
              (HexVal[s[((i - 1) \div 4) + 1]] \div (2 ^ (3 - ((i - 1) % 4)))) % 2])

\* x with leading zeros up to n digits
PadTo(x, n) ==
    [i \in 1..n |-> IF i <= n - Len(x) THEN 0 ELSE x[i - (n - Len(x))]]

\* x ^ y on Python integers
BitXor(x, y) ==
    LET n == IF Len(x) > Len(y) THEN Len(x) ELSE Len(y)
        a == PadTo(x, n)
        b == PadTo(y, n)
    IN Strip([i \in 1..n |-> IF a[i] = b[i] THEN 0 ELSE 1])

\* x < y on Python integers
IntLess(x, y) ==
    \/ Len(x) < Len(y)
    \/ /\ Len(x) = Len(y)
       /\ \E i \in DOMAIN x : /\ x[i] < y[i]
                              /\ \A j \in 1..(i - 1) : x[j] = y[j]

\* bin(x)[2:]
Bin(x) == IF x = <<>> THEN <<0>> ELSE x

\* _calculate_bucket_index counting the differing bit from the low end
CalculateBucketIndexLowFirst(self_id, node_id) ==
    LET distance == BitXor(ParseHex(self_id), ParseHex(node_id))
    IN IF distance = <<>> THEN 0 ELSE Len(Bin(distance)) - 1

\* DHTNode._calculate_bucket_index on the node whose id is self_id
CalculateBucketIndex(self_id, node_id) ==
    LET distance == BitXor(ParseHex(self_id), ParseHex(node_id))
    IN IF distance = <<>> THEN 0 ELSE ID_BITS - Len(Bin(distance))

\* ids
Fill(c) == [i \in 1..IdLen |-> c]
With(id, i, c) == [id EXCEPT ![i] = c]

\* ids of the id width: 40 hexadecimal digits
WidthIds ==
    {Fill("0"), With(Fill("0"), 1, "8"), With(Fill("0"), IdLen, "1"),
     With(Fill("0"), 20, "4"), Fill("f"), With(Fill("f"), 1, "7"),
     Fill("a"), With(Fill("a"), 1, "2"), With(Fill("a"), IdLen, "b"),
     With(Fill("a"), 1, "A"), With(Fill("a"), 33, "e"), Fill("5")}

\* the DHT nodes of the model
DhtNames == {"A", "B"}

\* the threads of a DHT node: _receive_loop, _maintenance_loop, and the
\* application thread that calls the API
Threads == {"receive", "maintenance", "caller"}

NoCall == [op |-> "none"]
NoWait == [for |-> "nothing"]

\* a thread: where it is, the reply it waits for inside an RPC, the calls it
\* is inside of (innermost first), the API call it runs and what that returned
Thread(pc) ==
    [pc |-> pc, wait |-> NoWait, stack |-> <<>>, call |-> NoCall, result |-> "None"]

RxIdle == Thread("idle")
RefresherIdle == Thread("sleep")
CallerIdle == Thread("idle")

\* the API call returned value
Returned(call, value) == [Thread("done") EXCEPT !.call = call, !.result = value]

\* DHTNode.__init__ for the node named n with the id given (validated and
\* lowercased); start() has not been called
DhtConstructed(ids) ==
    /\ \A n \in DOMAIN ids : Len(ids[n]) = IdLen /\ IsHex(ids[n])
    /\ dht_node_id = [n \in DOMAIN ids |-> Lower(ids[n])]
    /\ dht_running = [n \in DOMAIN ids |-> FALSE]
    /\ buckets = [n \in DOMAIN ids |-> <<>>]
    /\ storage = [n \in DOMAIN ids |-> <<>>]
    /\ buckets_lock = [n \in DOMAIN ids |-> "free"]
    /\ rx = [n \in DOMAIN ids |-> RxIdle]
    /\ refresher = [n \in DOMAIN ids |-> RefresherIdle]
    /\ caller = [n \in DOMAIN ids |-> CallerIdle]

----------------------------------------------------------------------------
(* _calculate_bucket_index as a function of two ids *)

IndexInit ==
    /\ NodeInit
    /\ \E id \in WidthIds : DhtConstructed([n \in {"A"} |-> id])

\* _calculate_bucket_index(node_id) on node A
CalculateIndex(node_id) ==
    /\ caller' = [caller EXCEPT !["A"] =
                     Returned([op |-> "_calculate_bucket_index", node_id |-> node_id],
                              CalculateBucketIndex(dht_node_id["A"], node_id))]
    /\ UNCHANGED <<nodeVars, serverVars, net, vpnVars, dht_node_id, dht_running,
                   buckets, storage, buckets_lock, rx, refresher>>

IndexNext == \E node_id \in WidthIds : CalculateIndex(node_id)

IndexSpec == IndexInit /\ [][IndexNext]_vars

\* 2^e
Pow2(e) == <<1>> \o [i \in 1..e |-> 0]

\* floor(log2(x)) for x > 0: the e with 2^e <= x < 2^(e+1)
Log2Floor(x) ==
    CHOOSE e \in 0..(4 * IdLen) : ~IntLess(x, Pow2(e)) /\ IntLess(x, Pow2(e + 1))

\* C22: for ids of the id width, _calculate_bucket_index(peer_id) is
\* 159 - floor(log2(self_id XOR peer_id)), and 0 when the XOR is 0; it lies
\* in 0..159.
C22_BucketIndexFormula ==
    caller["A"].call.op = "_calculate_bucket_index"
    => LET distance == BitXor(ParseHex(dht_node_id["A"]),
                              ParseHex(caller["A"].call.node_id))
       IN /\ caller["A"].result =
                 IF distance = <<>> THEN 0 ELSE 159 - Log2Floor(distance)
          /\ caller["A"].result \in 0..159

\* the index of a peer that differs from the node in one bit in the middle
C22_Witness ==
    /\ caller["A"].call.op = "_calculate_bucket_index"
    /\ caller["A"].result \notin {0, 159}

----------------------------------------------------------------------------
(* The DHT node's routing table, handlers and RPCs.                        *)
(*                                                                         *)
(* A thread that calls _ping_node, _find_node, _send_store or              *)
(* _send_find_value sends its request and then reads the node's socket     *)
(* until the reply it expects arrives or the wait times out.  A step of    *)
(* the model runs a thread up to its next such wait; the calls the thread  *)
(* is inside of are kept as frames, innermost first, and run on when the   *)
(* wait ends.                                                              *)

\* the socket address of each DHT node
DhtAddr == [n \in DhtNames |-> IF n = "A" THEN <<"192.0.2.1", 9001>>
                                ELSE <<"192.0.2.2", 9002>>]

\* message.get(field, default)
Field(message, field, default) ==
    IF field \in DOMAIN message THEN message[field] ELSE default

\* one DHT node's state as one value, with the number random.randint returns
\* to this step
DhtCur(n, msgid) ==
    [node_id |-> dht_node_id[n], buckets |-> buckets[n], storage |-> storage[n],
     lock |-> buckets_lock[n],
     th |-> [t \in Threads |-> CASE t = "receive" -> rx[n]
                                 [] t = "maintenance" -> refresher[n]
                                 [] OTHER -> caller[n]],
     msgid |-> msgid, sent |-> <<>>]

\* _send_message
DhtSend(d, message, addr) ==
    [d EXCEPT !.sent = Append(@, [message |-> message, to |-> addr])]

\* self.buckets[i]; the table keeps the non-empty buckets
Bucket(bs, i) == IF i \in DOMAIN bs THEN bs[i] ELSE <<>>

\* a Python list index: negative indexes count from the end
ListIndex(i) == IF i < 0 THEN i + ID_BITS ELSE i

\* bucket.remove(node) for the node at position i
Remove(bucket, i) == SubSeq(bucket, 1, i - 1) \o SubSeq(bucket, i + 1, Len(bucket))

\* lines 314-322 that keep the oldest contact as well as the new one
EvictKeepsBoth(bucket, new_node, responded) ==
    IF responded
    THEN Append(Tail(bucket), [bucket[1] EXCEPT !.last_seen = now])
    ELSE Append(bucket, new_node)

\* _update_routing_table, lines 314-322: the bucket after the ping of its
\* oldest contact
Evict(bucket, new_node, responded) ==
    IF responded
    THEN Append(Tail(bucket), [bucket[1] EXCEPT !.last_seen = now])
    ELSE Append(Tail(bucket), new_node)

\* all_nodes of find_nodes: the buckets in index order, from bucket i on
\* (the empty ones add nothing)
RECURSIVE AllNodesFrom(_, _)
AllNodesFrom(bs, i) ==
    LET left == {j \in DOMAIN bs : j >= i}
    IN IF left = {} THEN <<>>
       ELSE LET j == CHOOSE j \in left : \A k \in left : j <= k
            IN bs[j] \o AllNodesFrom(bs, j + 1)

AllNodes(bs) == AllNodesFrom(bs, 0)

\* node_id_int ^ target_int
Distance(node, target_id) == BitXor(ParseHex(node.node_id), ParseHex(target_id))

\* nodes_with_distance before the sort: each node with its distance
NodesWithDistance(all_nodes, target_id) ==
    [i \in DOMAIN all_nodes |->
        [node |-> all_nodes[i], distance |-> Distance(all_nodes[i], target_id)]]

\* list.sort(key = distance) is stable: a pair goes behind the pairs that
\* are not farther than it
InsertByDistance(sorted, pair) ==
    LET k == Cardinality({i \in DOMAIN sorted :
                             ~IntLess(pair.distance, sorted[i].distance)})
    IN SubSeq(sorted, 1, k) \o <<pair>> \o SubSeq(sorted, k + 1, Len(sorted))

RECURSIVE SortByDistance(_)
SortByDistance(pairs) ==
    IF pairs = <<>> THEN <<>>
    ELSE InsertByDistance(SortByDistance(SubSeq(pairs, 1, Len(pairs) - 1)),
                          pairs[Len(pairs)])

\* find_nodes without the sort
FindNodesUnsorted(bs, target_id, count) ==
    LET all_nodes == AllNodes(bs)
    IN SubSeq(all_nodes, 1, IF count < Len(all_nodes) THEN count ELSE Len(all_nodes))

\* DHTNode.find_nodes for a target that int(target_id, 16) accepts
FindNodes(bs, target_id, count) ==
    LET nodes_with_distance ==
            SortByDistance(NodesWithDistance(AllNodes(bs), target_id))
        n == IF count < Len(nodes_with_distance) THEN count
             ELSE Len(nodes_with_distance)
    IN [i \in 1..n |-> nodes_with_distance[i].node]

\* the thread t of d waits for a reply
Wait(d, t, for, host, key, stack) ==
    [d EXCEPT !.th[t].pc = "wait",
              !.th[t].wait = [for |-> for, host |-> host, msgid |-> d.msgid,
                              key |-> key],
              !.th[t].stack = stack]

\* _ping_node up to its wait
PingNode(d, t, host, stack) ==
    Wait(DhtSend(d, [type |-> "PING", node_id |-> d.node_id, msgid |-> d.msgid],
                 host),
         t, "PONG", host, "", stack)

\* _find_node up to its wait
FindNode(d, t, target_id, host, stack) ==
    Wait(DhtSend(d, [type |-> "FIND_NODE", node_id |-> d.node_id,
                     target |-> target_id, msgid |-> d.msgid], host),
         t, "NODES", host, "", stack)

\* _send_store up to its wait
SendStore(d, t, key, value, host, stack) ==
    Wait(DhtSend(d, [type |-> "STORE", node_id |-> d.node_id, key |-> key,
                     value |-> value, msgid |-> d.msgid], host),
         t, "STORE_OK", host, key, stack)

\* _send_find_value up to its wait
SendFindValue(d, t, key, host, stack) ==
    Wait(DhtSend(d, [type |-> "FIND_VALUE", node_id |-> d.node_id, key |-> key,
                     msgid |-> d.msgid], host),
         t, "VALUE", host, key, stack)

\* the thread t has nothing left to run: the receive loop is back at
\* recvfrom, the maintenance loop sleeps, the API call returns value
Finish(d, t, value) ==
    [d EXCEPT !.th[t] = CASE t = "receive" -> RxIdle
                          [] t = "maintenance" -> RefresherIdle
                          [] OTHER -> Returned(d.th[t].call, value)]

\* _handle_find_node: the state after it, and whether it returned or raised
HandleFindNode(d, message, addr) ==
    IF "target" \notin DOMAIN message THEN [d |-> d, ok |-> TRUE]
    ELSE IF ~IsHex(message.target) THEN [d |-> d, ok |-> FALSE]
    ELSE LET nearest_nodes == FindNodes(d.buckets, message.target, K)
             response ==
                 [type |-> "NODES", node_id |-> d.node_id,
                  msgid |-> Field(message, "msgid", ""),
                  nodes |-> [i \in DOMAIN nearest_nodes |->
                                [node_id |-> nearest_nodes[i].node_id,
                                 host |-> nearest_nodes[i].addr[1],
                                 port |-> nearest_nodes[i].addr[2]]]]
         IN [d |-> DhtSend(d, response, addr), ok |-> TRUE]

\* _handle_find_value
HandleFindValue(d, message, addr) ==
    IF "key" \notin DOMAIN message THEN [d |-> d, ok |-> TRUE]
    ELSE IF message.key \in DOMAIN d.storage
    THEN [d |-> DhtSend(d, [type |-> "VALUE", node_id |-> d.node_id,
                            msgid |-> Field(message, "msgid", ""),
                            key |-> message.key,
                            value |-> d.storage[message.key]], addr),
          ok |-> TRUE]
    ELSE HandleFindNode(d, [type |-> "FIND_NODE", node_id |-> message.node_id,
                            target |-> message.key], addr)

\* _handle_ping
DhtHandlePing(d, message, addr) ==
    DhtSend(d, [type |-> "PONG", node_id |-> d.node_id,
                msgid |-> Field(message, "msgid", "")], addr)

\* _handle_store
HandleStore(d, message, addr) ==
    IF "key" \notin DOMAIN message \/ "value" \notin DOMAIN message THEN d
    ELSE DhtSend([d EXCEPT !.storage = Put(@, message.key, message.value)],
                 [type |-> "STORE_OK", node_id |-> d.node_id,
                  msgid |-> Field(message, "msgid", ""), key |-> message.key],
                 addr)

\* a thread on its way: t goes on with the frames of stack, innermost
\* first, and value returned to the innermost one
Go(d, t, stack, value) ==
    [d |-> d, t |-> t, stack |-> stack, value |-> value, mode |-> "run"]

\* an exception propagates through the frames of stack
Throw(d, t, stack) ==
    [d |-> d, t |-> t, stack |-> stack, value |-> "None", mode |-> "raise"]

\* t has reached a wait, or has nothing left to run
Park(d, t) ==
    [d |-> d, t |-> t, stack |-> <<>>, value |-> "None", mode |-> "stop"]

\* the dispatch of _handle_message, lines 365-378, on the receive thread
Dispatch(d, message, addr, stack) ==
    LET try == <<[kind |-> "try"]>> \o stack
    IN CASE message.type = "PING" ->
                Go(DhtHandlePing(d, message, addr), "receive", try, "None")
         [] message.type = "PONG" -> Go(d, "receive", try, "None")
         [] message.type = "FIND_NODE" ->
                LET r == HandleFindNode(d, message, addr)
                IN IF r.ok THEN Go(r.d, "receive", try, "None")
                   ELSE Throw(r.d, "receive", try)
         [] message.type = "FIND_VALUE" ->
                LET r == HandleFindValue(d, message, addr)
                IN IF r.ok THEN Go(r.d, "receive", try, "None")
                   ELSE Throw(r.d, "receive", try)
         [] message.type = "STORE" ->
                Go(HandleStore(d, message, addr), "receive", try, "None")
         [] message.type = "NODES" ->
                IF "nodes" \notin DOMAIN message THEN Go(d, "receive", try, "None")
                ELSE Go(d, "receive",
                        <<[kind |-> "nodes", entries |-> message.nodes]>> \o try,
                        "None")
         [] OTHER -> Go(d, "receive", stack, "None")

\* DHTNode._update_routing_table on thread t, then the frames of stack
UpdateRoutingTable(d, t, node_id, addr, stack) ==
    IF node_id = d.node_id THEN Go(d, t, stack, "None")
    ELSE IF ~IsHex(node_id) THEN Throw(d, t, stack)
    ELSE LET bucket_index == ListIndex(CalculateBucketIndex(d.node_id, node_id))
         IN IF bucket_index \notin 0..(ID_BITS - 1) THEN Throw(d, t, stack)
            ELSE LET bucket == Bucket(d.buckets, bucket_index)
                     found == {i \in DOMAIN bucket : bucket[i].node_id = node_id}
                     new_node == [node_id |-> node_id, addr |-> addr,
                                  last_seen |-> now]
                 IN IF found # {}
                    THEN LET i == CHOOSE i \in found : \A j \in found : i <= j
                         IN Go([d EXCEPT !.buckets = Put(@, bucket_index,
                                    Append(Remove(bucket, i),
                                           [bucket[i] EXCEPT !.last_seen = now]))],
                               t, stack, "None")
                    ELSE IF Len(bucket) >= K
                    THEN Park(PingNode([d EXCEPT !.lock = t], t, bucket[1].addr,
                                       <<[kind |-> "update", index |-> bucket_index,
                                          new_node |-> new_node, lock |-> d.lock]>>
                                       \o stack),
                              t)
                    ELSE Go([d EXCEPT !.buckets = Put(@, bucket_index,
                                                     Append(bucket, new_node))],
                            t, stack, "None")

\* the loop over the nodes of a NODES message (lines 472-477 and 570-575):
\* its next pass
NodesLoop(d, t, entries, stack) ==
    IF entries = <<>> THEN Go(d, t, stack, "None")
    ELSE LET node == Head(entries)
             again == <<[kind |-> "nodes", entries |-> Tail(entries)]>> \o stack
         IN IF {"node_id", "host", "port"} \subseteq DOMAIN node
            THEN UpdateRoutingTable(d, t, node.node_id, <<node.host, node.port>>,
                                    again)
            ELSE Go(d, t, again, "None")

\* the loop of bootstrap over the seeds left
BootstrapLoop(d, t, seeds, successful, stack) ==
    IF seeds = <<>> THEN Go(d, t, stack, successful)
    ELSE Park(PingNode(d, t, Head(seeds),
                       <<[kind |-> "bootstrap_ping", seeds |-> Tail(seeds),
                          host |-> Head(seeds), successful |-> successful]>>
                       \o stack),
              t)

\* the loop of store over the nearest nodes left
StoreLoop(d, t, nodes, key, value, successful, stack) ==
    IF nodes = <<>> THEN Go(d, t, stack, successful)
    ELSE Park(SendStore(d, t, key, value, Head(nodes).addr,
                        <<[kind |-> "store", nodes |-> Tail(nodes), key |-> key,
                           value |-> value]>> \o stack),
              t)

\* the loop of get over the nearest nodes left
GetLoop(d, t, nodes, key, stack) ==
    IF nodes = <<>> THEN Go(d, t, stack, "None")
    ELSE Park(SendFindValue(d, t, key, Head(nodes).addr,
                            <<[kind |-> "get", nodes |-> Tail(nodes),
                               key |-> key]>> \o stack),
              t)

\* the thread of c runs on: the innermost frame gets the value returned to it
Return(c) ==
    IF c.stack = <<>> THEN Park(Finish(c.d, c.t, c.value), c.t)
    ELSE LET d == c.d
             t == c.t
             value == c.value
             f == Head(c.stack)
             rest == Tail(c.stack)
         IN CASE f.kind = "update" ->
                     \* _update_routing_table, after _ping_node returned
                     Go([d EXCEPT !.buckets[f.index] =
                                      Evict(@, f.new_node, value = "True"),
                                  !.lock = f.lock],
                        t, rest, "None")
              [] f.kind = "dispatch" -> Dispatch(d, f.message, f.addr, rest)
              [] f.kind = "nodes" -> NodesLoop(d, t, f.entries, rest)
              [] f.kind = "try" -> Go(d, t, rest, "None")
              [] f.kind = "find_node" -> Go(d, t, rest, "nodes")
              [] f.kind = "refresh" ->
                     Go([d EXCEPT !.lock = "free"], t, rest, "None")
              [] f.kind = "bootstrap_ping" ->
                     IF value = "True"
                     THEN Park(FindNode(d, t, d.node_id, f.host,
                                        <<[kind |-> "bootstrap_find",
                                           seeds |-> f.seeds]>> \o rest),
                               t)
                     ELSE BootstrapLoop(d, t, f.seeds, f.successful, rest)
              [] f.kind = "bootstrap_find" ->
                     BootstrapLoop(d, t, f.seeds, "True", rest)
              [] f.kind = "store" ->
                     StoreLoop(d, t, f.nodes, f.key, f.value, "True", rest)
              [] f.kind = "get" ->
                     IF value # "None"
                     THEN Go([d EXCEPT !.storage = Put(@, f.key, value)],
                             t, rest, value)
                     ELSE GetLoop(d, t, f.nodes, f.key, rest)

\* an exception leaves the frames up to the innermost try: the try of
\* _handle_message logs it (line 378), the bare except of _find_node goes
\* back to reading the socket (lines 579-580); with none left it ends the
\* handler in _receive_loop (line 343), the maintenance pass (line 703) or
\* the API call
Raise(c) ==
    IF c.stack = <<>> THEN Park(Finish(c.d, c.t, "raised"), c.t)
    ELSE LET f == Head(c.stack)
             rest == Tail(c.stack)
         IN CASE f.kind = "try" -> Go(c.d, c.t, rest, "None")
              [] f.kind = "find_node" ->
                     Park([c.d EXCEPT !.th[c.t].pc = "wait",
                                      !.th[c.t].wait = f.wait,
                                      !.th[c.t].stack = rest], c.t)
              [] f.kind = "refresh" ->
                     Throw([c.d EXCEPT !.lock = "free"], c.t, rest)
              [] OTHER -> Throw(c.d, c.t, rest)

\* the thread of c up to its next wait, or to the end of what it runs
RECURSIVE Run(_)
Run(c) ==
    IF c.mode = "stop" THEN c.d
    ELSE Run(IF c.mode = "run" THEN Return(c) ELSE Raise(c))

\* DHTNode._handle_message on the receive thread
DhtHandleMessage(d, message, addr) ==
    IF "type" \notin DOMAIN message \/ "node_id" \notin DOMAIN message
    THEN Finish(d, "receive", "None")
    ELSE Run(UpdateRoutingTable(d, "receive", message.node_id, addr,
                                <<[kind |-> "dispatch", message |-> message,
                                   addr |-> addr]>>))

\* what the waiting thread t makes of a datagram it reads: "no" when it
\* goes on reading, else the value its RPC returns
Reply(w, message, addr) ==
    IF addr # w.host THEN "no"
    ELSE LET type == Field(message, "type", "None")
             msgid == Field(message, "msgid", "None")
         IN CASE w.for = "PONG" ->
                     IF type = "PONG" /\ msgid = w.msgid THEN "True" ELSE "no"
              [] w.for = "NODES" ->
                     IF type = "NODES" /\ msgid = w.msgid THEN "nodes" ELSE "no"
              [] w.for = "STORE_OK" ->
                     IF type = "STORE_OK" /\ msgid = w.msgid
                        /\ Field(message, "key", "None") = w.key
                     THEN "True" ELSE "no"
              [] w.for = "VALUE" ->
                     IF type = "VALUE" /\ msgid = w.msgid
                        /\ Field(message, "key", "None") = w.key
                     THEN Field(message, "value", "None")
                     ELSE IF type = "NODES" /\ msgid = w.msgid THEN "None"
                     ELSE "no"

\* the waiting thread t reads a datagram
WaitRead(d, t, message, addr) ==
    LET w == d.th[t].wait
        stack == d.th[t].stack
        reply == Reply(w, message, addr)
    IN IF reply = "no" THEN d
       ELSE IF w.for = "NODES"
       THEN Run(NodesLoop(d, t, Field(message, "nodes", <<>>),
                          <<[kind |-> "find_node", wait |-> w]>> \o stack))
       ELSE Run(Go(d, t, stack, reply))

\* the wait of thread t ends without the reply
WaitTimeout(d, t) ==
    LET w == d.th[t].wait
    IN Run(Go(d, t, d.th[t].stack,
              CASE w.for = "PONG" -> "False"
                [] w.for = "STORE_OK" -> "False"
                [] w.for = "NODES" -> "nodes"
                [] OTHER -> "None"))

\* format(x, 'x')
HexChar(x) ==
    <<"0", "1", "2", "3", "4", "5", "6", "7", "8", "9",
      "a", "b", "c", "d", "e", "f">>[x + 1]

\* the target of _refresh_bucket with the bits of a digit counted from its
\* low end
RefreshTargetLowFirst(node_id, bucket_index) ==
    IF bucket_index = 0 THEN node_id
    ELSE LET bit == 2 ^ (bucket_index % 4)
             hex_val == HexVal[node_id[(bucket_index \div 4) + 1]]
             new_hex_val == IF (hex_val \div bit) % 2 = 1 THEN hex_val - bit
                            ELSE hex_val + bit
         IN With(node_id, (bucket_index \div 4) + 1, HexChar(new_hex_val))

\* the target of _refresh_bucket, lines 716-732
RefreshTarget(node_id, bucket_index) ==
    IF bucket_index = 0 THEN node_id
    ELSE LET bit == 2 ^ (3 - (bucket_index % 4))
             hex_val == HexVal[node_id[(bucket_index \div 4) + 1]]
             new_hex_val == IF (hex_val \div bit) % 2 = 1 THEN hex_val - bit
                            ELSE hex_val + bit
         IN With(node_id, (bucket_index \div 4) + 1, HexChar(new_hex_val))

\* hashlib.sha1(key).hexdigest() of the keys the application uses
Sha1 ==
    [key \in {"hello"} |-> With(With(Fill("3"), 1, "a"), IdLen, "9")]

----------------------------------------------------------------------------
(* Steps of the DHT nodes *)

\* the number of datagrams from outside and of calls of the application
MaxDhtEvents == 3

\* one more datagram from outside or call of the application
DhtEvent ==
    /\ events < MaxDhtEvents
    /\ events' = events + 1

\* the numbers random.randint(0, 1000000) returns
MsgIds == {"17", "42"}

\* sendto: a datagram for the socket of another node of the model is queued
\* there; any other leaves the model
Deliveries(n, out) ==
    UNION {{[to |-> m, message |-> out[i].message, addr |-> DhtAddr[n]] :
               m \in {m \in DOMAIN dht_node_id : DhtAddr[m] = out[i].to}} :
           i \in DOMAIN out}

\* the fields of node n take the values of d; the datagrams taken were read
\* from its socket
DhtCommit(n, d, taken, l) ==
    /\ buckets' = [buckets EXCEPT ![n] = d.buckets]
    /\ storage' = [storage EXCEPT ![n] = d.storage]
    /\ buckets_lock' = [buckets_lock EXCEPT ![n] = d.lock]
    /\ rx' = [rx EXCEPT ![n] = d.th["receive"]]
    /\ refresher' = [refresher EXCEPT ![n] = d.th["maintenance"]]
    /\ caller' = [caller EXCEPT ![n] = d.th["caller"]]
    /\ net' = (net \ taken) \cup Deliveries(n, d.sent)
    /\ sent' = d.sent
    /\ last' = l
    /\ UNCHANGED <<peers, hole_punching, timers, running, registered,
                   last_discover, now, recv, maint, started, serverVars, vpnVars,
                   dht_node_id, dht_running>>

\* the bootstrap call of d learns that the seed it pings has answered: a
\* PONG of that seed with the msgid of the PING has come out of the socket
Heard(d, dg) ==
    LET c == d.th["caller"]
    IN IF /\ c.pc = "wait"
          /\ c.call.op = "bootstrap"
          /\ c.stack # <<>>
          /\ Head(c.stack).kind = "bootstrap_ping"
          /\ Reply(c.wait, dg.message, dg.addr) = "True"
       THEN [d EXCEPT !.th["caller"].call.answered = TRUE]
       ELSE d

\* start()
DhtStart(n) ==
    /\ ~dht_running[n]
    /\ dht_running' = [dht_running EXCEPT ![n] = TRUE]
    /\ sent' = <<>>
    /\ last' = "start"
    /\ UNCHANGED <<peers, hole_punching, timers, running, registered,
                   last_discover, now, recv, maint, events, started, serverVars,
                   net, vpnVars, dht_node_id, buckets, storage, buckets_lock, rx,
                   refresher, caller>>

\* a datagram of somebody outside the model reaches the socket of n
Deliver(n, message, addr) ==
    /\ \A dg \in net : dg.to # n
    /\ DhtEvent
    /\ net' = net \cup {[to |-> n, message |-> message, addr |-> addr]}
    /\ sent' = <<>>
    /\ last' = "deliver"
    /\ UNCHANGED <<peers, hole_punching, timers, running, registered,
                   last_discover, now, recv, maint, started, serverVars, vpnVars,
                   dhtVars>>

\* _receive_loop: recvfrom returns a datagram and _handle_message runs, or
\* stops at buckets_lock when another thread holds it
RxReceive(n, dg, msgid) ==
    /\ dht_running[n]
    /\ rx[n].pc = "idle"
    /\ dg \in net
    /\ dg.to = n
    /\ LET d == Heard(DhtCur(n, msgid), dg)
       IN IF buckets_lock[n] = "free"
          THEN DhtCommit(n, DhtHandleMessage(d, dg.message, dg.addr), {dg},
                         "receive")
          ELSE DhtCommit(n, [d EXCEPT !.th["receive"] =
                                [Thread("blocked") EXCEPT !.wait =
                                    [for |-> "buckets_lock",
                                     message |-> dg.message, addr |-> dg.addr]]],
                         {dg}, "blocked")
    /\ UNCHANGED events

\* the receive thread gets buckets_lock and _handle_message runs
RxResume(n, msgid) ==
    /\ rx[n].pc = "blocked"
    /\ buckets_lock[n] = "free"
    /\ DhtCommit(n, DhtHandleMessage(DhtCur(n, msgid), rx[n].wait.message,
                                     rx[n].wait.addr),
                 {}, "receive")
    /\ UNCHANGED events

\* the thread of n that waits for a reply
Waiting(n, t) ==
    CASE t = "receive" -> rx[n].pc = "wait"
      [] t = "maintenance" -> refresher[n].pc = "wait"
      [] OTHER -> caller[n].pc = "wait"

\* recvfrom in the waiting loop of an RPC returns a datagram
ThreadRead(n, t, dg, msgid) ==
    /\ Waiting(n, t)
    /\ dg \in net
    /\ dg.to = n
    /\ LET d == Heard(DhtCur(n, msgid), dg)
       IN DhtCommit(n, WaitRead(d, t, dg.message, dg.addr), {dg},
                    IF Reply(d.th[t].wait, dg.message, dg.addr) = "no"
                    THEN "discard" ELSE "reply")
    /\ UNCHANGED events

\* no datagram is on its way to n, and none to a node that would answer
Quiet(n) == \A dg \in net : dg.to # n /\ ~dht_running[dg.to]

\* the waiting loop of an RPC ends after 2 s without the reply
ThreadTimeout(n, t, msgid) ==
    /\ Waiting(n, t)
    /\ Quiet(n)
    /\ \A m \in DOMAIN dht_node_id :
           rx[m].pc = "blocked" => buckets_lock[m] # "free"
    /\ DhtCommit(n, WaitTimeout(DhtCur(n, msgid), t), {}, "timeout")
    /\ UNCHANGED events

\* _maintenance_loop: _refresh_bucket(bucket_index) with a non-empty bucket,
\* up to the wait of _find_node; random.choice takes the contact at position j
Refresh(n, bucket_index, j, msgid) ==
    /\ dht_running[n]
    /\ refresher[n].pc = "sleep"
    /\ buckets_lock[n] = "free"
    /\ bucket_index \in DOMAIN buckets[n]
    /\ j \in {1, Len(buckets[n][bucket_index])}
    /\ DhtEvent
    /\ LET d == DhtCur(n, msgid)
       IN DhtCommit(n, FindNode([d EXCEPT !.lock = "maintenance"], "maintenance",
                                RefreshTarget(d.node_id, bucket_index),
                                d.buckets[bucket_index][j].addr,
                                <<[kind |-> "refresh"]>>),
                    {}, "refresh")

\* the application thread of n is free to call the API
CallerFree(n) == caller[n].pc \in {"idle", "done"} /\ buckets_lock[n] = "free"

\* the call the application thread of d makes
Calling(d, call) == [d EXCEPT !.th["caller"] = [CallerIdle EXCEPT !.call = call]]

\* find_nodes(target_id, count) called by the application
Lookup(n, target_id, count) ==
    /\ CallerFree(n)
    /\ DhtEvent
    /\ LET d == Calling(DhtCur(n, ""), [op |-> "find_nodes",
                                        target_id |-> target_id, count |-> count])
       IN DhtCommit(n, Finish(d, "caller", FindNodes(d.buckets, target_id, count)),
                    {}, "find_nodes")

\* every node of the model runs and has the other nodes in its routing
\* table
Connected ==
    \A n \in DOMAIN dht_node_id :
        /\ dht_running[n]
        /\ \A m \in DOMAIN dht_node_id \ {n} :
               \E c \in {AllNodes(buckets[n])[i] : i \in DOMAIN AllNodes(buckets[n])} :
                   c.node_id = dht_node_id[m] /\ c.addr = DhtAddr[m]

\* store(key, value) called by the application, up to its first wait
Store(n, key, value, msgid) ==
    /\ CallerFree(n)
    /\ DhtEvent
    /\ LET d == Calling(DhtCur(n, msgid),
                        [op |-> "store", key |-> key, value |-> value,
                         connected |-> Connected])
           key_hash == Sha1[key]
           nearest_nodes == FindNodes(d.buckets, key_hash, K)
       IN DhtCommit(n, IF nearest_nodes = <<>>
                       THEN Finish([d EXCEPT !.storage = Put(@, key_hash, value)],
                                   "caller", "True")
                       ELSE Run(StoreLoop(d, "caller", nearest_nodes, key_hash,
                                          value, "False", <<>>)),
                    {}, "store")

\* a store(key, value) has returned in a connected network
StoreReturned(key) ==
    \E m \in DOMAIN dht_node_id :
        /\ caller[m].pc = "done"
        /\ \/ /\ caller[m].call.op = "store"
              /\ caller[m].call.key = key
              /\ caller[m].call.connected
           \/ /\ caller[m].call.op = "get"
              /\ caller[m].call.key = key
              /\ caller[m].call.after_store # "None"

\* the value of the store(key, value) that has returned
StoredValue(key) ==
    IF ~StoreReturned(key) THEN "None"
    ELSE LET m == CHOOSE m \in DOMAIN dht_node_id :
                      /\ caller[m].pc = "done"
                      /\ caller[m].call.op \in {"store", "get"}
                      /\ caller[m].call.key = key
                      /\ caller[m].call.op = "store" => caller[m].call.connected
                      /\ caller[m].call.op = "get"
                             => caller[m].call.after_store # "None"
         IN IF caller[m].call.op = "store" THEN caller[m].call.value
            ELSE caller[m].call.after_store

\* get(key) called by the application, up to its first wait; the call
\* remembers the value a store that has returned before it had
Get(n, key, msgid) ==
    /\ CallerFree(n)
    /\ DhtEvent
    /\ LET d == Calling(DhtCur(n, msgid),
                        [op |-> "get", key |-> key,
                         after_store |-> StoredValue(key)])
           key_hash == Sha1[key]
       IN DhtCommit(n, IF key_hash \in DOMAIN d.storage
                       THEN Finish(d, "caller", d.storage[key_hash])
                       ELSE Run(GetLoop(d, "caller",
                                        FindNodes(d.buckets, key_hash, K),
                                        key_hash, <<>>)),
                    {}, "get")

\* bootstrap(nodes) called by the application, up to its first wait
Bootstrap(n, seeds, msgid) ==
    /\ CallerFree(n)
    /\ DhtEvent
    /\ LET d == Calling(DhtCur(n, msgid),
                        [op |-> "bootstrap", seeds |-> seeds, answered |-> FALSE])
       IN DhtCommit(n, IF seeds = <<>> THEN Finish(d, "caller", "False")
                       ELSE Run(BootstrapLoop(d, "caller", seeds, "False", <<>>)),
                    {}, "bootstrap")

----------------------------------------------------------------------------
(* One DHT node and the rest of the network as its environment *)

\* the node's id, and ids of other nodes: Far(k) differ from it in the second
\* bit, Top in the first, Near in the last; Shout is the node's own id in
\* capitals; Long has 41 digits and NotAnId is not hexadecimal
SelfA == Fill("a")
Far(k) == With(With(With(Fill("a"), 1, "e"), IdLen - 1, HexChar(k \div 16)),
               IdLen, HexChar(k % 16))
Top == With(Fill("a"), 1, "2")
Near == With(Fill("a"), IdLen, "b")
Shout == With(Fill("a"), 1, "A")
Long == <<"1">> \o Fill("a")
NotAnId == <<"x", "y">>

\* the address each of them sends from
EnvAddr(id) ==
    IF \E k \in 1..(K + 2) : id = Far(k)
    THEN <<"198.51.100.1", 7000 + (CHOOSE k \in 1..(K + 2) : id = Far(k))>>
    ELSE IF id = Top THEN <<"198.51.100.2", 7000>>
    ELSE IF id = Near THEN <<"198.51.100.3", 7000>>
    ELSE <<"198.51.100.4", 7000>>

\* a routing table whose bucket 1 is full: Far(1), ..., Far(K) have each
\* sent one message, in this order
FullTable ==
    Put(<<>>, 1, [k \in 1..K |-> [node_id |-> Far(k), addr |-> EnvAddr(Far(k)),
                                  last_seen |-> 0]])

\* an entry of a NODES message
Entry(id) == [node_id |-> id, host |-> EnvAddr(id)[1], port |-> EnvAddr(id)[2]]

\* the datagrams the environment sends, each with its source address
DhtDatagrams ==
    {[message |-> [type |-> "PING", node_id |-> id, msgid |-> "7"],
      addr |-> EnvAddr(id)] :
        id \in {Far(1), Far(K + 1), Far(K + 2), Top, Near, Shout, Long, NotAnId,
                SelfA}}
    \cup {[message |-> [type |-> "PONG", node_id |-> Far(1), msgid |-> msgid],
           addr |-> EnvAddr(Far(1))] : msgid \in MsgIds}
    \cup {[message |-> [type |-> "PONG", node_id |-> Far(1), msgid |-> "17"],
           addr |-> EnvAddr(Near)]}
    \cup {[message |-> [type |-> "FIND_NODE", node_id |-> Near, msgid |-> "7",
                        target |-> target],
           addr |-> EnvAddr(Near)] : target \in {SelfA, Far(K + 1), NotAnId}}
    \cup {[message |-> [type |-> "FIND_NODE", node_id |-> Near, msgid |-> "7"],
           addr |-> EnvAddr(Near)]}
    \cup {[message |-> [type |-> "FIND_VALUE", node_id |-> Near, msgid |-> "7",
                        key |-> Sha1["hello"]],
           addr |-> EnvAddr(Near)]}
    \cup {[message |-> [type |-> "STORE", node_id |-> Near, msgid |-> "7",
                        key |-> Sha1["hello"], value |-> "world"],
           addr |-> EnvAddr(Near)]}
    \cup {[message |-> [type |-> "NODES", node_id |-> Far(1), msgid |-> msgid,
                        nodes |-> nodes],
           addr |-> EnvAddr(Far(1))] :
             msgid \in MsgIds,
             nodes \in {<<>>, <<Entry(Far(K + 1))>>,
                        <<Entry(Top), [node_id |-> Near], Entry(Near)>>,
                        <<Entry(NotAnId), Entry(Top)>>}}
    \cup {[message |-> [node_id |-> Near, msgid |-> "7"], addr |-> EnvAddr(Near)]}

\* the targets and counts the application looks up
LookupTargets == {SelfA, Far(2), Top}
LookupCounts == {0, 2, K}

\* node A constructed, with an empty routing table or one that earlier
\* traffic has filled
DhtInit ==
    /\ NodeInit
    /\ dht_node_id = [n \in {"A"} |-> SelfA]
    /\ dht_running = [n \in {"A"} |-> FALSE]
    /\ buckets \in {[n \in {"A"} |-> <<>>], [n \in {"A"} |-> FullTable]}
    /\ storage = [n \in {"A"} |-> <<>>]
    /\ buckets_lock = [n \in {"A"} |-> "free"]
    /\ rx = [n \in {"A"} |-> RxIdle]
    /\ refresher = [n \in {"A"} |-> RefresherIdle]
    /\ caller = [n \in {"A"} |-> CallerIdle]

DhtNext ==
    \/ DhtStart("A")
    \/ \E dg \in DhtDatagrams : Deliver("A", dg.message, dg.addr)
    \/ \E dg \in net, msgid \in MsgIds : RxReceive("A", dg, msgid)
    \/ \E msgid \in MsgIds : RxResume("A", msgid)
    \/ \E t \in Threads, dg \in net, msgid \in MsgIds : ThreadRead("A", t, dg, msgid)
    \/ \E t \in Threads, msgid \in MsgIds : ThreadTimeout("A", t, msgid)
    \/ \E bucket_index \in DOMAIN buckets["A"], j \in 1..K, msgid \in MsgIds :
           Refresh("A", bucket_index, j, msgid)

DhtSpec == DhtInit /\ [][DhtNext]_vars

----------------------------------------------------------------------------
(* find_nodes on the routing tables that node A's traffic builds *)

\* the datagrams that add contacts to the table
FindDatagrams ==
    {dg \in DhtDatagrams :
        /\ Field(dg.message, "type", "None") = "PING"
        /\ dg.message.node_id \in {Far(1), Top, Near, Shout}}

FindNext ==
    \/ DhtStart("A")
    \/ \E dg \in FindDatagrams : Deliver("A", dg.message, dg.addr)
    \/ \E dg \in net, msgid \in MsgIds : RxReceive("A", dg, msgid)
    \/ \E target_id \in LookupTargets, count \in LookupCounts :
           Lookup("A", target_id, count)

FindSpec == DhtInit /\ [][FindNext]_vars

----------------------------------------------------------------------------
(* Two DHT nodes, A and B, on a network that loses nothing: the calls of   *)
(* the application and the receive threads                                *)

\* the ids of the two nodes
NetIds == [n \in DhtNames |-> IF n = "A" THEN SelfA ELSE Top]

\* the routing table of n once it has heard from the other node
TableOf(n) ==
    LET m == CHOOSE m \in DhtNames : m # n
    IN Put(<<>>, CalculateBucketIndex(NetIds[n], NetIds[m]),
           <<[node_id |-> NetIds[m], addr |-> DhtAddr[m], last_seen |-> 0]>>)

\* an address nobody listens on
NobodyAddr == <<"203.0.113.9", 9>>

\* the seeds node n is given: the other node, or an address without a node
SeedLists(n) == {<<DhtAddr[m]>> : m \in DhtNames \ {n}} \cup {<<NobodyAddr>>}

\* the number random.randint returns in this network
NetMsgIds == {"17"}

\* B runs and A is constructed, neither knowing the other; or both run, each
\* with the other in its routing table
NetInit ==
    /\ NodeInit
    /\ dht_node_id = NetIds
    /\ \/ /\ dht_running = [n \in DhtNames |-> n = "B"]
          /\ buckets = [n \in DhtNames |-> <<>>]
       \/ /\ dht_running = [n \in DhtNames |-> TRUE]
          /\ buckets = [n \in DhtNames |-> TableOf(n)]
    /\ storage = [n \in DhtNames |-> <<>>]
    /\ buckets_lock = [n \in DhtNames |-> "free"]
    /\ rx = [n \in DhtNames |-> RxIdle]
    /\ refresher = [n \in DhtNames |-> RefresherIdle]
    /\ caller = [n \in DhtNames |-> CallerIdle]

NetNext ==
    \E n \in DhtNames, msgid \in NetMsgIds :
        \/ DhtStart(n)
        \/ \E dg \in net : RxReceive(n, dg, msgid)
        \/ \E t \in Threads, dg \in net : ThreadRead(n, t, dg, msgid)
        \/ \E t \in Threads : ThreadTimeout(n, t, msgid)
        \/ Store(n, "hello", "world", msgid)
        \/ Get(n, "hello", msgid)
        \/ \E seeds \in SeedLists(n) : Bootstrap(n, seeds, msgid)

NetSpec == NetInit /\ [][NetNext]_vars

----------------------------------------------------------------------------
(* Properties of the DHT node *)

\* C21: after any sequence of inbound messages and NODES replies, every
\* bucket of the routing table holds at most K contacts.
C21_BucketsHoldAtMostK ==
    \A n \in DOMAIN buckets : \A i \in DOMAIN buckets[n] : Len(buckets[n][i]) <= K

\* C21: a contact came for a full bucket whose oldest contact did not answer
\* the ping: the newcomer has taken its place and the bucket still holds K.
C21_Witness ==
    /\ 1 \in DOMAIN buckets["A"]
    /\ Len(buckets["A"][1]) = K
    /\ buckets["A"][1][K].node_id = Far(K + 1)
    /\ buckets["A"][1][1].node_id = Far(2)

\* C23: bucket 0 only ever holds contacts whose XOR distance to the local id
\* is zero.
C23_BucketZeroHoldsZeroDistance ==
    \A n \in DOMAIN buckets :
        \A i \in DOMAIN Bucket(buckets[n], 0) :
            Distance(buckets[n][0][i], dht_node_id[n]) = <<>>

\* the contacts node A knows, and what its last call of find_nodes returned
Known == AllNodes(buckets["A"])
Found == caller["A"].result

\* C27: find_nodes(target, count) returns min(count, number of known
\* contacts) contacts, each taken from the local buckets and none twice,
\* sorted by increasing XOR distance to target, and no known contact left
\* out is strictly closer to target than a returned one.
C27_FindNodesReturnsClosest ==
    last = "find_nodes" =>
        LET target == caller["A"].call.target_id
            count == caller["A"].call.count
            known == {Known[i] : i \in DOMAIN Known}
            found == {Found[i] : i \in DOMAIN Found}
        IN /\ Len(Found) = IF count < Len(Known) THEN count ELSE Len(Known)
           /\ found \subseteq known
           /\ Cardinality(found) = Len(Found)
           /\ \A i \in DOMAIN Found : \A j \in DOMAIN Found :
                  i < j => ~IntLess(Distance(Found[j], target),
                                    Distance(Found[i], target))
           /\ \A c \in known \ found : \A i \in DOMAIN Found :
                  ~IntLess(Distance(c, target), Distance(Found[i], target))

\* C27: find_nodes has returned two contacts that are not the first two of
\* the buckets, the second strictly farther than the first, and has left
\* out others.
C27_Witness ==
    /\ last = "find_nodes"
    /\ Len(Found) = 2
    /\ Len(Known) > 2
    /\ Found # SubSeq(Known, 1, 2)
    /\ IntLess(Distance(Found[1], caller["A"].call.target_id),
               Distance(Found[2], caller["A"].call.target_id))

\* C28: no thread waits for a network reply while it holds buckets_lock or
\* while it runs the message handler of the receive loop.
C28_NoWaitInLockOrHandler ==
    \A n \in DOMAIN rx :
        /\ rx[n].pc # "wait"
        /\ refresher[n].pc = "wait" => buckets_lock[n] # "maintenance"
        /\ caller[n].pc = "wait" => buckets_lock[n] # "caller"

\* C24: in a connected two-node network, a get(k) called after store(k, v)
\* has returned gives v, on either node.
C24_GetAfterStore ==
    \A n \in DOMAIN caller :
        (/\ caller[n].pc = "done"
         /\ caller[n].call.op = "get"
         /\ caller[n].call.after_store # "None")
            => caller[n].result = caller[n].call.after_store

\* C25: bootstrap(seeds) returns True if and only if a seed answered the
\* node's PING with a PONG of the same msgid.
C25_BootstrapIffSeedAnswered ==
    \A n \in DOMAIN caller :
        (caller[n].pc = "done" /\ caller[n].call.op = "bootstrap")
            => (caller[n].result = "True" <=> caller[n].call.answered)

\* the types of the responses
Responses == {"PONG", "NODES", "VALUE", "STORE_OK"}

\* C26: every response (PONG, NODES, VALUE, STORE_OK) a node sends carries
\* the msgid of the request it answers, the datagram its receive loop has
\* just read.
C26_ResponsesCarryRequestMsgid ==
    [][\A n \in DOMAIN rx : \A dg \in net :
           (/\ last' = "receive"
            /\ rx[n].pc = "idle"
            /\ dg.to = n
            /\ dg \notin net')
               => \A i \in DOMAIN sent' :
                      sent'[i].message.type \in Responses
                          => sent'[i].message.msgid = Field(dg.message, "msgid", "")]_vars

----------------------------------------------------------------------------
(* Further properties of the DHT node's routing table *)

\* the target id of _refresh_bucket(bucket_index) on node A, and the bucket
\* _calculate_bucket_index gives for it; both are functions of the node's id
\* and the index alone, so one computation per run shows them all
TargetIndex(bucket_index) ==
    /\ caller["A"].pc = "idle"
    /\ LET target_id == RefreshTarget(dht_node_id["A"], bucket_index)
       IN caller' = [caller EXCEPT !["A"] =
                        Returned([op |-> "_refresh_bucket",
                                  bucket_index |-> bucket_index,
                                  target_id |-> target_id],
                                 CalculateBucketIndex(dht_node_id["A"], target_id))]
    /\ UNCHANGED <<nodeVars, serverVars, net, vpnVars, dht_node_id, dht_running,
                   buckets, storage, buckets_lock, rx, refresher>>

TargetNext == \E bucket_index \in 0..(ID_BITS - 1) : TargetIndex(bucket_index)

TargetSpec == IndexInit /\ [][TargetNext]_vars

\* C35: for every bucket index i in 1..159 the target id of
\* _refresh_bucket(i) differs from the local id in exactly one bit, the i-th
\* from the most significant one (counted from 0: the XOR is 2^(159 - i)), and
\* _calculate_bucket_index maps the target to bucket i.
C35_RefreshTargetLiesInBucket ==
    (/\ caller["A"].call.op = "_refresh_bucket"
     /\ caller["A"].call.bucket_index \in 1..159)
    => /\ BitXor(ParseHex(dht_node_id["A"]), ParseHex(caller["A"].call.target_id))
            = Pow2(159 - caller["A"].call.bucket_index)
       /\ caller["A"].result = caller["A"].call.bucket_index

\* C35: the target of a bucket in the middle of a digit was computed.
C35_Witness ==
    /\ caller["A"].call.op = "_refresh_bucket"
    /\ caller["A"].call.bucket_index = 158
    /\ caller["A"].result = 158
    /\ caller["A"].call.target_id # dht_node_id["A"]

\* the position of thread t of node n
Pos(n, t) ==
    CASE t = "receive" -> rx[n]
      [] t = "maintenance" -> refresher[n]
      [] OTHER -> caller[n]

\* the calls of this stack insert no further contact when they go on
InsertsNoMore(stack) ==
    \A i \in DOMAIN stack :
        /\ stack[i].kind = "nodes" => stack[i].entries = <<>>
        /\ stack[i].kind = "dispatch"
           => Field(stack[i].message, "type", "None") # "NODES"

\* thread t of node n waits for the PONG of the head of a full bucket, and
\* the insertion it is in is the last one of the call
Pinging(n, t) ==
    /\ Pos(n, t).pc = "wait"
    /\ Pos(n, t).stack # <<>>
    /\ Head(Pos(n, t).stack).kind = "update"
    /\ InsertsNoMore(Tail(Pos(n, t).stack))

\* C34: a contact c that is new to a full bucket makes the node ping the
\* bucket's head h and wait.  When a PONG of h with the msgid of that PING
\* comes out of the socket, h moves to the tail and c is not inserted; when
\* the wait ends without it, h is removed and c is appended.  Either way the
\* bucket has K entries and the other K - 1 contacts keep their order.
C34_FullBucketPingsHead ==
    [][\A n \in DOMAIN buckets, t \in Threads :
          Pinging(n, t)
          => LET f == Head(Pos(n, t).stack)
                 bucket == buckets[n][f.index]
                 h == bucket[1]
                 c == f.new_node
             IN /\ Len(bucket) = K
                /\ \A i \in DOMAIN bucket : bucket[i].node_id # c.node_id
                /\ Pos(n, t).wait.host = h.addr
                /\ (\E dg \in net :
                       /\ dg.to = n
                       /\ dg \notin net'
                       /\ Reply(Pos(n, t).wait, dg.message, dg.addr) = "True")
                   => buckets'[n][f.index] =
                          Append(Tail(bucket), [h EXCEPT !.last_seen = now])
                /\ (last' = "timeout" /\ Pos(n, t)' # Pos(n, t))
                   => buckets'[n][f.index] = Append(Tail(bucket), c)]_vars

\* C40: in every state of a DHT node each node_id occurs at most once in the
\* whole routing table, every contact of bucket i has
\* _calculate_bucket_index(node_id) = i, and the local node_id is in no
\* bucket.
C40_RoutingTableWellFormed ==
    \A n \in DOMAIN buckets :
        \A i \in DOMAIN buckets[n] : \A k \in DOMAIN buckets[n][i] :
            LET node_id == buckets[n][i][k].node_id
            IN /\ \A j \in DOMAIN buckets[n] : \A l \in DOMAIN buckets[n][j] :
                      buckets[n][j][l].node_id = node_id => (j = i /\ l = k)
               /\ CalculateBucketIndex(dht_node_id[n], node_id) = i
               /\ node_id # dht_node_id[n]

----------------------------------------------------------------------------
(* Further properties of the mesh node's hole punching *)

\* C31: a retry that does not exhaust the attempt increments attempts by one
\* and sends exactly one hole_punch datagram: to the external endpoint when
\* attempts is even; when it is odd, to the local endpoint if one is known
\* and to the external endpoint if none is.
C31_RetrySendsOneDatagram ==
    [][\A p \in NodeIds :
          (TimerFire(p) /\ last' = "retry_sent")
          => /\ hole_punching'[p].attempts = hole_punching[p].attempts + 1
             /\ Len(sent') = 1
             /\ sent'[1].action = "hole_punch"
             /\ sent'[1].to =
                    IF hole_punching'[p].attempts % 2 = 0 \/ peers[p].local = NoAddr
                    THEN peers[p].external
                    ELSE peers[p].local]_vars

\* C37: a peer whose status is active is active after every step that leaves
\* it in the peer table, and it leaves the table only by cleanup_peers: no
\* message, retry timer, exhausted attempt or maintenance step turns an
\* active peer into a discovered one.
C37_ActiveStaysActive ==
    [][\A p \in DOMAIN peers :
          peers[p].status = "active"
          => IF p \in DOMAIN peers'
             THEN peers'[p].status = "active"
             ELSE \E max_age \in MaxAges : peers' = CleanupPeers(peers, max_age)]_vars

\* C37: an attempt for a peer has been exhausted while the peer is active.
C37_Witness ==
    /\ last = "retry_exhausted"
    /\ \E p \in DOMAIN peers : peers[p].status = "active" /\ timers[p] = 0

\* the mesh node whose timers fire once started
TimerSpec == Spec /\ \A p \in NodeIds : WF_vars(TimerFire(p))

\* C32: on a node that keeps running, every HolePunchAttempt record is
\* eventually removed: no record stays in hole_punching forever.
C32_AttemptsAreRemoved ==
    \A p \in NodeIds :
        (p \in DOMAIN hole_punching) ~> (p \notin DOMAIN hole_punching \/ ~running)

\* the entry of p is as _handle_discover_response wrote it, 600 s in the past
Backlogged(p) ==
    /\ p \in DOMAIN peers
    /\ peers[p].status = "discovered"
    /\ now - peers[p].last_seen >= DiscoverBacklog

\* a pass of the maintenance loop gets to its cleanup_peers()
CleanupPass ==
    \/ Maintain /\ maint'.pc = "sleep"
    \/ MaintainPunch /\ InitiateAct(Cur, maint.peer).ok /\ maint'.pc = "sleep"

\* the attempt for p has outlived the peer entry on a running node
Orphaned(p) ==
    /\ running
    /\ p \in DOMAIN hole_punching
    /\ p \notin DOMAIN peers

\* the node whose application leaves cleanup_peers to the maintenance loop
PassNext ==
    \/ \E message \in Messages, addr \in Addrs : Receive(message, addr)
    \/ ReceivePunch
    \/ Maintain
    \/ MaintainPunch
    \/ \E peer_id \in NodeIds : TimerFire(peer_id)
    \/ \E peer_id \in NodeIds, addr \in Addrs : AddPeer(peer_id, addr)
    \/ Stop
    \/ Tick

\* its timers fire once started
PassSpec ==
    /\ Init
    /\ [][PassNext]_vars
    /\ \A p \in NodeIds : WF_vars(TimerFire(p))

\* C38: a pass of the maintenance loop that gets to cleanup_peers removes
\* every peer whose entry is still as discover_response wrote it (no message
\* from it was processed); a retry timer that then fires for the removed peer
\* deletes its HolePunchAttempt and sends nothing; and such a timer is
\* pending: the attempt of a removed peer does not stay for ever on a node
\* that keeps running.
C38_UnansweredPeerIsForgotten ==
    /\ [][CleanupPass => \A p \in NodeIds : Backlogged(p) => p \notin DOMAIN peers']_vars
    /\ [][\A p \in NodeIds :
             (Orphaned(p) /\ TimerFire(p))
             => /\ p \notin DOMAIN hole_punching'
                /\ sent' = <<>>
                /\ started' = <<>>]_vars
    /\ \A p \in NodeIds : Orphaned(p) ~> ~Orphaned(p)

----------------------------------------------------------------------------
(* MeshNode.start: the node from its construction on                       *)
(*                                                                         *)
(* start() starts the receive thread first (Node.start), then asks STUN    *)
(* for the external address, then registers, then starts the maintenance   *)
(* thread.  Datagrams are handled while start() is between its first and   *)
(* its last statement; maint.pc = "start" is that interval.                *)

NotStarted == [pc |-> "start", peer |-> NoId]

\* the node whose start() has started the receive thread
StartInit ==
    /\ peers = <<>>
    /\ hole_punching = <<>>
    /\ timers = [p \in NodeIds |-> 0]
    /\ running = TRUE
    /\ registered = FALSE
    /\ last_discover = 0
    /\ now = 0
    /\ recv = Idle
    /\ maint = NotStarted
    /\ events = 0
    /\ sent = <<>>
    /\ started = <<>>
    /\ last = "init"
    /\ server_nodes = <<>>
    /\ server_running = FALSE
    /\ disc = NoRequest
    /\ sweep = SweepSleeping
    /\ reg_from = <<>>
    /\ net = {}
    /\ routing_table = <<>>
    /\ ip_mapping = <<>>
    /\ tun = "none"
    /\ tun_written = <<>>
    /\ NoDht

\* start(), lines 112-117: _register_with_discovery(), then the maintenance
\* thread is started
Start ==
    /\ maint.pc = "start"
    /\ Commit([RegisterWithDiscovery(Cur) EXCEPT !.maint = Sleeping], "start")
    /\ UNCHANGED <<running, now, events>>

StartNext ==
    \/ Start
    \/ Next

StartSpec == StartInit /\ [][StartNext]_vars

RegisterSent == \E i \in DOMAIN sent : sent[i].action = "register"

----------------------------------------------------------------------------
(* Further properties of the VPN node *)

\* C33: processing a vpn_route_update sets routing_table[ip] = node_id for
\* every received pair whose node_id is not the receiver's own id, writes no
\* entry for a pair whose node_id is the receiver's own id, and leaves every
\* other routing entry, ip_mapping and the peer table as they were.
C33_RouteUpdateWritesForeignRoutes ==
    [][\A message \in VpnMessages :
          (/\ message.action = "vpn_route_update"
           /\ message.node_id # NoId
           /\ message.has_routes
           /\ VpnReceive(message, WanAddr))
          => LET routes == message.routes
             IN /\ \A ip \in DOMAIN routes :
                      routes[ip] # SelfId
                      => ip \in DOMAIN routing_table' /\ routing_table'[ip] = routes[ip]
                /\ \A ip \in DOMAIN routing_table' :
                      (ip \notin DOMAIN routes \/ routes[ip] = SelfId)
                      => ip \in DOMAIN routing_table
                         /\ routing_table'[ip] = routing_table[ip]
                /\ DOMAIN routing_table \subseteq DOMAIN routing_table'
                /\ ip_mapping' = ip_mapping
                /\ peers' = peers]_vars

\* C33: an update has entered a route to a node no vpn_packet came from, and
\* has entered nothing for the address it paired with the receiver's own id.
C33_Witness ==
    /\ last = "receive"
    /\ ip_mapping = <<>>
    /\ "10.0.0.2" \in DOMAIN routing_table
    /\ routing_table["10.0.0.2"] = "p2"
    /\ "10.0.0.3" \notin DOMAIN routing_table

\* C39: a TUN packet whose destination has a routing-table entry that points
\* to a node_id missing from the peer table (the node's own id included)
\* causes no datagram at all, not even the broadcast, and changes neither
\* table, the peer table nor the hole-punching records.
C39_UnknownRouteDropsPacket ==
    [][\A packet \in TunPackets, nonce \in Nonces :
          (/\ packet.len >= HeaderLen
           /\ packet.version = 4
           /\ packet.dst \in DOMAIN routing_table
           /\ routing_table[packet.dst] \notin DOMAIN peers
           /\ TunRead(packet, nonce))
          => /\ sent' = <<>>
             /\ routing_table' = routing_table
             /\ ip_mapping' = ip_mapping
             /\ peers' = peers
             /\ hole_punching' = hole_punching
             /\ tun_written' = <<>>]_vars

\* C39: a TUN packet was read and nothing was sent, while an active peer
\* would have received a broadcast and every overlay address, the node's own
\* among them, is routed to a node that is not in the peer table.
C39_Witness ==
    /\ last = "tun_read"
    /\ sent = <<>>
    /\ ActivePeers(peers) # <<>>
    /\ \A ip \in OverlayIps :
          ip \in DOMAIN routing_table /\ routing_table[ip] \notin DOMAIN peers
    /\ routing_table[OwnIp] = SelfId

====
